---- MODULE Spec2Model ----
(***************************************************************************)
(* IceKing recommendation engine: condition store (mockDb.conditions),     *)
(* drive-time cache (drive_times table), identity resolution, scoring and  *)
(* the recommendation pipeline, as a state machine.                        *)
(*                                                                         *)
(* Conventions.                                                            *)
(*  - Strings that the code inspects character by character (resort names  *)
(*    and ids) are sequences of one-character strings; the letter o-umlaut *)
(*    is the atom "o_uml" (upper case "O_uml").                            *)
(*  - JavaScript null/undefined is NULL.                                   *)
(*  - Time is in minutes; minute 0 is a Sunday 00:00.                      *)
(*  - Scores are exact rationals [n, d] with d > 0.                        *)
(*  - Distances are in tenths of a kilometre (the code rounds to 0.1 km);  *)
(*    coordinates are degrees * 10000.                                     *)
(*  - dataStorage.ts calls `statements` without importing it; the model    *)
(*    binds the name to the mock statements of database/index.ts.          *)
(*  - Rows pushed while the clock stands still carry the same scraped_at   *)
(*    (Date has millisecond resolution; a loop pushes within one).         *)
(***************************************************************************)
EXTENDS Integers, Sequences, FiniteSets, TLC

VARIABLES
  conditions,   \* mockDb.conditions: the rows pushed by insertConditions
  driveTimes,   \* the drive_times table: rows unique per (resort_id, origin)
  now,          \* the wall clock, in minutes
  api,          \* the routing service: "nokey", or how it answers a request
  ops,          \* the number of operations so far
  last,         \* the last operation, its arguments and what it returned
  scoreIn,      \* the argument of calculateScore (scoring specification)
  scoreOut,     \* the result of calculateScore (scoring specification)
  tasks         \* the asynchronous operations started and where each stands

vars == <<conditions, driveTimes, now, api, ops, last, scoreIn, scoreOut, tasks>>

NULL == -1

(***************************************************************************)
(* Bounds of the model.                                                    *)
(***************************************************************************)
MaxOps == 3   \* operations in one behaviour

(***************************************************************************)
(* Small helpers.                                                          *)
(***************************************************************************)
Max(a, b) == IF a >= b THEN a ELSE b
Min(a, b) == IF a <= b THEN a ELSE b

\* JavaScript x || d for a number or null: null and 0 are falsy.
OrElse(x, d) == IF x = NULL \/ x = 0 THEN d ELSE x


(***************************************************************************)
(* Exact rationals.                                                        *)
(***************************************************************************)
Rat(n, d)    == IF d < 0 THEN [n |-> 0 - n, d |-> 0 - d] ELSE [n |-> n, d |-> d]
RatInt(k)    == [n |-> k, d |-> 1]
RatAdd(a, b) == [n |-> a.n * b.d + b.n * a.d, d |-> a.d * b.d]
RatSub(a, b) == [n |-> a.n * b.d - b.n * a.d, d |-> a.d * b.d]
RatMul(a, b) == [n |-> a.n * b.n, d |-> a.d * b.d]
RatLE(a, b)  == a.n * b.d <= b.n * a.d
RatLT(a, b)  == a.n * b.d < b.n * a.d
RatEq(a, b)  == a.n * b.d = b.n * a.d
RatMin(a, b) == IF RatLE(a, b) THEN a ELSE b
RatMax(a, b) == IF RatLE(a, b) THEN b ELSE a

(***************************************************************************)
(* Strings as character sequences.                                         *)
(***************************************************************************)
UpperToLower ==
  [c \in {"A","B","C","D","E","F","G","H","I","J","K","L","M","N","O","P","Q",
          "R","S","T","U","V","W","X","Y","Z","O_uml"} |->
     CASE c = "A" -> "a" [] c = "B" -> "b" [] c = "C" -> "c" [] c = "D" -> "d"
       [] c = "E" -> "e" [] c = "F" -> "f" [] c = "G" -> "g" [] c = "H" -> "h"
       [] c = "I" -> "i" [] c = "J" -> "j" [] c = "K" -> "k" [] c = "L" -> "l"
       [] c = "M" -> "m" [] c = "N" -> "n" [] c = "O" -> "o" [] c = "P" -> "p"
       [] c = "Q" -> "q" [] c = "R" -> "r" [] c = "S" -> "s" [] c = "T" -> "t"
       [] c = "U" -> "u" [] c = "V" -> "v" [] c = "W" -> "w" [] c = "X" -> "x"
       [] c = "Y" -> "y" [] c = "Z" -> "z" [] c = "O_uml" -> "o_uml"]

LowerAlnum ==
  {"a","b","c","d","e","f","g","h","i","j","k","l","m","n","o","p","q","r","s",
   "t","u","v","w","x","y","z","0","1","2","3","4","5","6","7","8","9"}

\* String.prototype.toLowerCase
toLowerCase(s) ==
  [i \in DOMAIN s |-> IF s[i] \in DOMAIN UpperToLower THEN UpperToLower[s[i]] ELSE s[i]]

\* String.prototype.trim (the only white space of the model is the blank)
RECURSIVE trimStart(_)
trimStart(s) == IF s # <<>> /\ Head(s) = " " THEN trimStart(Tail(s)) ELSE s
RECURSIVE trimEnd(_)
trimEnd(s) ==
  IF s # <<>> /\ s[Len(s)] = " " THEN trimEnd(SubSeq(s, 1, Len(s) - 1)) ELSE s
trim(s) == trimEnd(trimStart(s))

\* String.prototype.includes
includes(s, t) ==
  \E i \in 0..(Len(s) - Len(t)) : SubSeq(s, i + 1, i + Len(t)) = t

\* .replace(/-+/g, '-'): every run of separators becomes one separator
RECURSIVE collapseDashes(_)
collapseDashes(s) ==
  IF Len(s) < 2 THEN s
  ELSE IF s[1] = "-" /\ s[2] = "-" THEN collapseDashes(Tail(s))
  ELSE <<s[1]>> \o collapseDashes(Tail(s))

\* .replace(/^-|-$/g, ''): one leading and one trailing separator removed
stripDashes(s) ==
  LET a == IF s # <<>> /\ Head(s) = "-" THEN Tail(s) ELSE s
  IN  IF a # <<>> /\ a[Len(a)] = "-" THEN SubSeq(a, 1, Len(a) - 1) ELSE a

createResortId(resortName) ==
  LET lower  == toLowerCase(resortName)
      dashed == [i \in DOMAIN lower |->
                   IF lower[i] \in LowerAlnum THEN lower[i] ELSE "-"]
  IN  stripDashes(collapseDashes(dashed))

\* A resort without operating-hours templates.
NoOperatingHours == [configured |-> FALSE, weekdays |-> <<>>, weekends |-> <<>>]

(***************************************************************************)
(* The static registry (resortMapping.ts).                                 *)
(***************************************************************************)
RESORT_DATABASE ==
  <<
    [ bergfexName |-> <<"E", "n", "g", "e", "l", "b", "e", "r", "g", " ", "T", "i", "t", "l", "i", "s">>,
      internalId  |-> <<"e", "n", "g", "e", "l", "b", "e", "r", "g", "-", "t", "i", "t", "l", "i", "s">>,
      resort |-> [ id |-> <<"e", "n", "g", "e", "l", "b", "e", "r", "g", "-", "t", "i", "t", "l", "i", "s">>,
                   coordinates |-> [lat |-> 468217, lng |-> 84017],
                   seasonStatus |-> "OPEN", priority |-> 10, difficulty |-> "mixed",
                   hasPark |-> TRUE, hasNightRiding |-> FALSE, operatingHours |-> NoOperatingHours ] ],
    [ bergfexName |-> <<"Z", "e", "r", "m", "a", "t", "t">>,
      internalId  |-> <<"z", "e", "r", "m", "a", "t", "t">>,
      resort |-> [ id |-> <<"z", "e", "r", "m", "a", "t", "t">>,
                   coordinates |-> [lat |-> 460244, lng |-> 77486],
                   seasonStatus |-> "OPEN", priority |-> 10, difficulty |-> "advanced",
                   hasPark |-> TRUE, hasNightRiding |-> FALSE, operatingHours |-> NoOperatingHours ] ],
    [ bergfexName |-> <<"S", "a", "a", "s", "-", "F", "e", "e">>,
      internalId  |-> <<"s", "a", "a", "s", "-", "f", "e", "e">>,
      resort |-> [ id |-> <<"s", "a", "a", "s", "-", "f", "e", "e">>,
                   coordinates |-> [lat |-> 461080, lng |-> 79276],
                   seasonStatus |-> "OPEN", priority |-> 9, difficulty |-> "mixed",
                   hasPark |-> TRUE, hasNightRiding |-> FALSE, operatingHours |-> NoOperatingHours ] ],
    [ bergfexName |-> <<"D", "a", "v", "o", "s", " ", "K", "l", "o", "s", "t", "e", "r", "s", " ", "P", "a", "r", "s", "e", "n", "n">>,
      internalId  |-> <<"d", "a", "v", "o", "s", "-", "p", "a", "r", "s", "e", "n", "n">>,
      resort |-> [ id |-> <<"d", "a", "v", "o", "s", "-", "p", "a", "r", "s", "e", "n", "n">>,
                   coordinates |-> [lat |-> 467974, lng |-> 98209],
                   seasonStatus |-> "OPEN", priority |-> 8, difficulty |-> "mixed",
                   hasPark |-> TRUE, hasNightRiding |-> FALSE, operatingHours |-> NoOperatingHours ] ],
    [ bergfexName |-> <<"G", "l", "a", "c", "i", "e", "r", " ", "3", "0", "0", "0", " ", "-", " ", "L", "e", "s", " ", "D", "i", "a", "b", "l", "e", "r", "e", "t", "s">>,
      internalId  |-> <<"g", "l", "a", "c", "i", "e", "r", "-", "3", "0", "0", "0">>,
      resort |-> [ id |-> <<"g", "l", "a", "c", "i", "e", "r", "-", "3", "0", "0", "0">>,
                   coordinates |-> [lat |-> 463317, lng |-> 72044],
                   seasonStatus |-> "OPEN", priority |-> 8, difficulty |-> "mixed",
                   hasPark |-> TRUE, hasNightRiding |-> FALSE, operatingHours |-> NoOperatingHours ] ],
    [ bergfexName |-> <<"A", "r", "o", "s", "a", " ", "L", "e", "n", "z", "e", "r", "h", "e", "i", "d", "e">>,
      internalId  |-> <<"a", "r", "o", "s", "a", "-", "l", "e", "n", "z", "e", "r", "h", "e", "i", "d", "e">>,
      resort |-> [ id |-> <<"a", "r", "o", "s", "a", "-", "l", "e", "n", "z", "e", "r", "h", "e", "i", "d", "e">>,
                   coordinates |-> [lat |-> 467824, lng |-> 96849],
                   seasonStatus |-> "OPEN", priority |-> 7, difficulty |-> "mixed",
                   hasPark |-> TRUE, hasNightRiding |-> FALSE, operatingHours |-> NoOperatingHours ] ],
    [ bergfexName |-> <<"A", "n", "d", "e", "r", "m", "a", "t", "t", " ", "-", " ", "G", "e", "m", "s", "s", "t", "o", "c", "k">>,
      internalId  |-> <<"a", "n", "d", "e", "r", "m", "a", "t", "t">>,
      resort |-> [ id |-> <<"a", "n", "d", "e", "r", "m", "a", "t", "t">>,
                   coordinates |-> [lat |-> 466356, lng |-> 85939],
                   seasonStatus |-> "OPEN", priority |-> 7, difficulty |-> "advanced",
                   hasPark |-> TRUE, hasNightRiding |-> FALSE, operatingHours |-> NoOperatingHours ] ],
    [ bergfexName |-> <<"G", "s", "t", "a", "a", "d">>,
      internalId  |-> <<"g", "s", "t", "a", "a", "d">>,
      resort |-> [ id |-> <<"g", "s", "t", "a", "a", "d">>,
                   coordinates |-> [lat |-> 464700, lng |-> 72831],
                   seasonStatus |-> "OPEN", priority |-> 6, difficulty |-> "mixed",
                   hasPark |-> FALSE, hasNightRiding |-> FALSE, operatingHours |-> NoOperatingHours ] ],
    [ bergfexName |-> <<"S", "u", "r", "v", "i", "h", " ", "-", " ", "S", "a", "m", "e", "d", "a", "n">>,
      internalId  |-> <<"s", "u", "r", "v", "i", "h", "-", "s", "a", "m", "e", "d", "a", "n">>,
      resort |-> [ id |-> <<"s", "u", "r", "v", "i", "h", "-", "s", "a", "m", "e", "d", "a", "n">>,
                   coordinates |-> [lat |-> 465339, lng |-> 98717],
                   seasonStatus |-> "OPEN", priority |-> 6, difficulty |-> "mixed",
                   hasPark |-> FALSE, hasNightRiding |-> FALSE, operatingHours |-> NoOperatingHours ] ],
    [ bergfexName |-> <<"L", "a", "u", "c", "h", "e", "r", "n", "a", "l", "p", " ", "-", " ", "L", "o_uml", "t", "s", "c", "h", "e", "n", "t", "a", "l">>,
      internalId  |-> <<"l", "a", "u", "c", "h", "e", "r", "n", "a", "l", "p", "-", "l", "o", "e", "t", "s", "c", "h", "e", "n", "t", "a", "l">>,
      resort |-> [ id |-> <<"l", "a", "u", "c", "h", "e", "r", "n", "a", "l", "p", "-", "l", "o", "e", "t", "s", "c", "h", "e", "n", "t", "a", "l">>,
                   coordinates |-> [lat |-> 464167, lng |-> 77667],
                   seasonStatus |-> "OPEN", priority |-> 5, difficulty |-> "mixed",
                   hasPark |-> FALSE, hasNightRiding |-> FALSE, operatingHours |-> NoOperatingHours ] ],
    [ bergfexName |-> <<"S", "o_uml", "r", "e", "n", "b", "e", "r", "g">>,
      internalId  |-> <<"s", "o", "e", "r", "e", "n", "b", "e", "r", "g">>,
      resort |-> [ id |-> <<"s", "o", "e", "r", "e", "n", "b", "e", "r", "g">>,
                   coordinates |-> [lat |-> 468333, lng |-> 80333],
                   seasonStatus |-> "OPEN", priority |-> 5, difficulty |-> "mixed",
                   hasPark |-> FALSE, hasNightRiding |-> FALSE, operatingHours |-> NoOperatingHours ] ],
    [ bergfexName |-> <<"D", "a", "v", "o", "s", " ", "S", "c", "h", "a", "t", "z", "a", "l", "p", " ", "-", " ", "S", "t", "r", "e", "l", "a">>,
      internalId  |-> <<"d", "a", "v", "o", "s", "-", "s", "c", "h", "a", "t", "z", "a", "l", "p", "-", "s", "t", "r", "e", "l", "a">>,
      resort |-> [ id |-> <<"d", "a", "v", "o", "s", "-", "s", "c", "h", "a", "t", "z", "a", "l", "p", "-", "s", "t", "r", "e", "l", "a">>,
                   coordinates |-> [lat |-> 468000, lng |-> 98167],
                   seasonStatus |-> "OPEN", priority |-> 5, difficulty |-> "mixed",
                   hasPark |-> FALSE, hasNightRiding |-> FALSE, operatingHours |-> NoOperatingHours ] ],
    [ bergfexName |-> <<"D", "a", "v", "o", "s", " ", "R", "i", "n", "e", "r", "h", "o", "r", "n">>,
      internalId  |-> <<"d", "a", "v", "o", "s", "-", "r", "i", "n", "e", "r", "h", "o", "r", "n">>,
      resort |-> [ id |-> <<"d", "a", "v", "o", "s", "-", "r", "i", "n", "e", "r", "h", "o", "r", "n">>,
                   coordinates |-> [lat |-> 468167, lng |-> 98333],
                   seasonStatus |-> "OPEN", priority |-> 5, difficulty |-> "mixed",
                   hasPark |-> FALSE, hasNightRiding |-> FALSE, operatingHours |-> NoOperatingHours ] ],
    [ bergfexName |-> <<"H", "o", "c", "h", "-", "Y", "b", "r", "i", "g">>,
      internalId  |-> <<"h", "o", "c", "h", "-", "y", "b", "r", "i", "g">>,
      resort |-> [ id |-> <<"h", "o", "c", "h", "-", "y", "b", "r", "i", "g">>,
                   coordinates |-> [lat |-> 470139, lng |-> 88581],
                   seasonStatus |-> "CLOSED", priority |-> 5, difficulty |-> "beginner",
                   hasPark |-> FALSE, hasNightRiding |-> FALSE, operatingHours |-> NoOperatingHours ] ],
    [ bergfexName |-> <<"F", "l", "u", "m", "s", "e", "r", "b", "e", "r", "g">>,
      internalId  |-> <<"f", "l", "u", "m", "s", "e", "r", "b", "e", "r", "g">>,
      resort |-> [ id |-> <<"f", "l", "u", "m", "s", "e", "r", "b", "e", "r", "g">>,
                   coordinates |-> [lat |-> 470867, lng |-> 93344],
                   seasonStatus |-> "CLOSED", priority |-> 4, difficulty |-> "beginner",
                   hasPark |-> FALSE, hasNightRiding |-> FALSE, operatingHours |-> NoOperatingHours ] ]
  >>

getAllResorts == RESORT_DATABASE

\* Position in the registry of the first entry with this id, 0 for none
\* (Array.prototype.find returning undefined).
findIndexByInternalId(resortId) ==
  LET hits == {i \in DOMAIN RESORT_DATABASE : RESORT_DATABASE[i].internalId = resortId}
  IN  IF hits = {} THEN 0 ELSE CHOOSE i \in hits : \A j \in hits : i <= j

\* nameToMapping: the keys (lower-case bergfex names) in insertion order; the
\* value of key i is registry entry i, or a later entry with the same key.
nameToMapping ==
  [i \in DOMAIN RESORT_DATABASE |-> toLowerCase(RESORT_DATABASE[i].bergfexName)]

nameToMappingGet(key) ==
  LET hits == {i \in DOMAIN nameToMapping : nameToMapping[i] = key}
  IN  IF hits = {} THEN 0 ELSE CHOOSE i \in hits : \A j \in hits : i >= j

\* A lookup that knows the exact match only.
findResortExactOnly(bergfexName) == nameToMappingGet(toLowerCase(bergfexName))

\* Position in the registry of the entry the name resolves to, 0 for null.
findResortByBergfexName(bergfexName) ==
  LET exact      == nameToMappingGet(toLowerCase(bergfexName))
      normalized == trim(toLowerCase(bergfexName))
      partial    == {i \in DOMAIN nameToMapping :
                       \/ includes(normalized, nameToMapping[i])
                       \/ includes(nameToMapping[i], normalized)}
  IN  IF exact # 0 THEN exact
      ELSE IF partial = {} THEN 0
      ELSE nameToMappingGet(nameToMapping[CHOOSE i \in partial : \A j \in partial : i <= j])

(***************************************************************************)
(* Scoring (scoring.ts).                                                   *)
(***************************************************************************)

\* Date.prototype.getDay: 0 = Sunday .. 6 = Saturday
getDay(t) == (t \div (24 * 60)) % 7

\* getHours() * 60 + getMinutes()
minuteOfDay(t) == t % (24 * 60)

isWeekday(t) == getDay(t) >= 1 /\ getDay(t) <= 5

\* An hours template "HH:MM-HH:MM" is <<open, close>> in minutes of the day
\* (timeToMinutes applied to both halves); <<>> is a missing template.
isOperatingToday(resort, t) ==
  LET isWeekend == getDay(t) = 0 \/ getDay(t) = 6
      hours     == IF isWeekend THEN resort.operatingHours.weekends
                   ELSE resort.operatingHours.weekdays
  IN  IF ~resort.operatingHours.configured THEN TRUE
      ELSE IF hours = <<>> THEN TRUE
      ELSE minuteOfDay(t) >= hours[1] /\ minuteOfDay(t) <= hours[2]

normalizeSnowDepth(depth) ==
  IF depth <= 20 THEN RatInt(depth)
  ELSE IF depth <= 50
    THEN RatAdd(RatInt(20), Rat((depth - 20) * (60 - 20), 50 - 20))
  ELSE IF depth <= 100
    THEN RatAdd(RatInt(60), Rat((depth - 50) * (90 - 60), 50 - 100))
  ELSE RatAdd(RatInt(90), RatMin(RatInt(10), Rat(depth - 100, 10)))

getQualityBonus(resort) ==
    (IF resort.hasPark THEN 5 ELSE 0)
  + (IF resort.hasNightRiding THEN 3 ELSE 0)
  + (IF resort.difficulty = "mixed" THEN 2 ELSE 0)

\* baseScore - liftPenalty + weekdayBonus of an open resort.
rawScore(resort, t) ==
  LET snowScore    == RatMul(normalizeSnowDepth(OrElse(resort.mountainDepth, 0)), Rat(1, 2))
      newSnowScore == RatInt(Min(OrElse(resort.newSnow, 0) * 5, 20))
      liftScore    == Rat(OrElse(resort.liftsOpen, 0) * 20,
                          Max(OrElse(resort.liftsTotal, 1), 1))
      qualityBonus == RatInt(getQualityBonus(resort))
      baseScore    == RatAdd(RatAdd(snowScore, newSnowScore),
                             RatAdd(liftScore, qualityBonus))
      liftPenalty  == RatInt(IF OrElse(resort.liftsOpen, 0) < 1 THEN 10 ELSE 0)
      weekdayBonus == RatInt(IF isWeekday(t) THEN 5 ELSE 0)
  IN  RatAdd(RatSub(baseScore, liftPenalty), weekdayBonus)

\* A composite without Math.max(0, Math.min(100, ...)).
compositeScoreUnclamped(resort, t) == rawScore(resort, t)

\* The weighted composite of an open resort, clamped to [0, 100].
compositeScore(resort, t) ==
  RatMax(RatInt(0), RatMin(RatInt(100), rawScore(resort, t)))

\* calculateScore without the closed-for-season pre-filter.
calculateScoreNoSeasonFilter(resort, t) ==
  IF resort.liftsOpen = 0 /\ ~isOperatingToday(resort, t)
    THEN [score |-> RatInt(0), status |-> "CLOSED_TODAY"]
    ELSE [score |-> compositeScore(resort, t), status |-> "OPEN"]

\* calculateScore that reports a resort closed for the season with the
\* composite score in place of 0.
calculateScoreClosedKeepsScore(resort, t) ==
  IF resort.seasonStatus = "CLOSED"
    THEN [score |-> compositeScore(resort, t), status |-> "CLOSED"]
  ELSE IF resort.liftsOpen = 0 /\ ~isOperatingToday(resort, t)
    THEN [score |-> RatInt(0), status |-> "CLOSED_TODAY"]
  ELSE [score |-> compositeScore(resort, t), status |-> "OPEN"]

calculateScore(resort, t) ==
  IF resort.seasonStatus = "CLOSED"
    THEN [score |-> RatInt(0), status |-> "CLOSED"]
  ELSE IF resort.liftsOpen = 0 /\ ~isOperatingToday(resort, t)
    THEN [score |-> RatInt(0), status |-> "CLOSED_TODAY"]
  ELSE [score |-> compositeScore(resort, t), status |-> "OPEN"]

(***************************************************************************)
(* Condition store (database/index.ts, dataStorage.ts).                    *)
(***************************************************************************)
None    == <<>>
Some(x) == <<x>>

\* The three sample rows mockDb.conditions holds when the module is loaded.
mockConditions(t) ==
  << [ resort_id |-> RESORT_DATABASE[1].internalId, mountain_depth |-> 83,
       valley_depth |-> NULL, new_snow |-> NULL, lifts_open |-> 1,
       lifts_total |-> 13, last_update |-> t, scraped_at |-> t ],
     [ resort_id |-> RESORT_DATABASE[3].internalId, mountain_depth |-> 175,
       valley_depth |-> 30, new_snow |-> NULL, lifts_open |-> 8,
       lifts_total |-> 23, last_update |-> t, scraped_at |-> t ],
     [ resort_id |-> RESORT_DATABASE[2].internalId, mountain_depth |-> 150,
       valley_depth |-> NULL, new_snow |-> NULL, lifts_open |-> 1,
       lifts_total |-> 52, last_update |-> t, scraped_at |-> t ] >>

\* statements.insertConditions.run: push the row, stamped with the clock.
insertConditions(rows, data, t) ==
  Append(rows, [ resort_id |-> data.resort_id, mountain_depth |-> data.mountain_depth,
                 valley_depth |-> data.valley_depth, new_snow |-> data.new_snow,
                 lifts_open |-> data.lifts_open, lifts_total |-> data.lifts_total,
                 last_update |-> data.last_update, scraped_at |-> t ])

\* statements.getLatestConditions.get: Array.prototype.find, the first match.
statementsGetLatestConditions(rows, resortId) ==
  LET hits == {i \in DOMAIN rows : rows[i].resort_id = resortId}
  IN  IF hits = {} THEN None
      ELSE Some(rows[CHOOSE i \in hits : \A j \in hits : i <= j])

\* The identity a scraped item is stored under.
resolveResortId(item) ==
  LET resortMapping == findResortByBergfexName(item.name)
  IN  IF resortMapping # 0 THEN RESORT_DATABASE[resortMapping].internalId
      ELSE item.resortId

\* Two rows that differ at most in the time they were pushed.
sameRecord(a, b) == [a EXCEPT !.scraped_at = 0] = [b EXCEPT !.scraped_at = 0]

RECURSIVE storeBergfexConditions(_, _, _)
storeBergfexConditions(rows, scrapedData, t) ==
  IF scrapedData = <<>> THEN rows
  ELSE LET item == Head(scrapedData)
       IN  storeBergfexConditions(
             insertConditions(rows,
               [ resort_id |-> resolveResortId(item),
                 mountain_depth |-> item.mountainDepth,
                 valley_depth |-> item.valleyDepth, new_snow |-> item.newSnow,
                 lifts_open |-> item.liftsOpen, lifts_total |-> item.liftsTotal,
                 last_update |-> item.lastUpdate ], t),
             Tail(scrapedData), t)

\* A row in the Conditions format the service returns.
formatConditions(row, t) ==
  [ resortId |-> row.resort_id, scrapedAt |-> row.scraped_at,
    mountainDepth |-> row.mountain_depth, valleyDepth |-> row.valley_depth,
    newSnow |-> row.new_snow, liftsOpen |-> row.lifts_open,
    liftsTotal |-> row.lifts_total,
    lastUpdate |-> IF row.last_update # NULL THEN row.last_update ELSE t ]

getLatestConditions(rows, resortId, t) ==
  LET row == statementsGetLatestConditions(rows, resortId)
  IN  IF row = None THEN None ELSE Some(formatConditions(row[1], t))

\* latestByResort: the keys in insertion order (first row of each id) and,
\* per key, the row with the greatest scraped_at, the first of them on a tie.
RECURSIVE latestByResort(_, _)
latestByResort(rows, acc) ==
  IF rows = <<>> THEN acc
  ELSE LET condition == Head(rows)
           at == {i \in DOMAIN acc : acc[i].resort_id = condition.resort_id}
       IN  IF at = {} THEN latestByResort(Tail(rows), Append(acc, condition))
           ELSE LET k == CHOOSE i \in at : TRUE
                IN  IF condition.scraped_at > acc[k].scraped_at
                      THEN latestByResort(Tail(rows), [acc EXCEPT ![k] = condition])
                      ELSE latestByResort(Tail(rows), acc)

\* The Map the service returns, as the sequence of its values in key order.
getAllLatestConditions(rows, t) ==
  LET latest == latestByResort(rows, <<>>)
  IN  [i \in DOMAIN latest |-> formatConditions(latest[i], t)]

\* Map.prototype.get on the result of getAllLatestConditions
conditionsMapGet(conditionsMap, resortId) ==
  LET at == {i \in DOMAIN conditionsMap : conditionsMap[i].resortId = resortId}
  IN  IF at = {} THEN None ELSE Some(conditionsMap[CHOOSE i \in at : TRUE])

(***************************************************************************)
(* Drive-time cache (database/index.ts, dataStorage.ts).                   *)
(***************************************************************************)
oneYear == 365 * 24 * 60

\* A store that files the row under the origin of the earlier version.
storeDriveTimeOtherOrigin(table, driveTime) ==
  {r \in table : ~(r.resort_id = driveTime.resortId /\ r.origin = "Dietikon")}
    \cup {[ resort_id |-> driveTime.resortId, origin |-> "Dietikon",
            drive_time_minutes |-> driveTime.driveTimeMinutes,
            distance_km |-> driveTime.distanceKm, cached_at |-> driveTime.cachedAt ]}

\* A store whose distance column holds whole kilometres.
storeDriveTimeWholeKm(table, driveTime) ==
  {r \in table : ~(r.resort_id = driveTime.resortId /\ r.origin = driveTime.origin)}
    \cup {[ resort_id |-> driveTime.resortId, origin |-> driveTime.origin,
            drive_time_minutes |-> driveTime.driveTimeMinutes,
            distance_km |-> (driveTime.distanceKm \div 10) * 10,
            cached_at |-> driveTime.cachedAt ]}

\* INSERT OR REPLACE under UNIQUE(resort_id, origin)
storeDriveTime(table, driveTime) ==
  {r \in table : ~(r.resort_id = driveTime.resortId /\ r.origin = driveTime.origin)}
    \cup {[ resort_id |-> driveTime.resortId, origin |-> driveTime.origin,
            drive_time_minutes |-> driveTime.driveTimeMinutes,
            distance_km |-> driveTime.distanceKm, cached_at |-> driveTime.cachedAt ]}

\* A lookup without the test of cached_at.
getDriveTimeNoExpiry(table, resortId, origin, t) ==
  LET hits == {r \in table : r.resort_id = resortId /\ r.origin = origin}
  IN  IF hits = {} THEN None
      ELSE LET row == CHOOSE r \in hits : TRUE
           IN  Some([ resortId |-> row.resort_id, origin |-> row.origin,
                      driveTimeMinutes |-> row.drive_time_minutes,
                      distanceKm |-> row.distance_km, cachedAt |-> row.cached_at ])

getDriveTime(table, resortId, origin, t) ==
  LET hits == {r \in table : r.resort_id = resortId /\ r.origin = origin}
  IN  IF hits = {} THEN None
      ELSE LET row == CHOOSE r \in hits : TRUE
           IN  IF row.cached_at < t - oneYear THEN None
               ELSE Some([ resortId |-> row.resort_id, origin |-> row.origin,
                           driveTimeMinutes |-> row.drive_time_minutes,
                           distanceKm |-> row.distance_km, cachedAt |-> row.cached_at ])

(***************************************************************************)
(* Travel-cost estimator (driveTimes module in recommendations.ts).        *)
(***************************************************************************)
HEDINGEN_COORDS == [lat |-> 472981, lng |-> 84483]

\* The coordinates unmapped resorts get.
DefaultCoordinates == [lat |-> 468000, lng |-> 82000]

\* Haversine distance in metres.  The formula is evaluated for the one
\* origin and the destinations of the model and tabulated here.
calculateDistance(lat1, lng1, lat2, lng2) ==
  CASE lat2 = 468217 /\ lng2 = 84017 -> 53091
    [] lat2 = 460244 /\ lng2 = 77486 -> 151359
    [] lat2 = 461080 /\ lng2 = 79276 -> 138161
    [] lat2 = 467974 /\ lng2 = 98209 -> 117961
    [] lat2 = 463317 /\ lng2 = 72044 -> 143200
    [] lat2 = 467824 /\ lng2 = 96849 -> 109858
    [] lat2 = 466356 /\ lng2 = 85939 -> 74490
    [] lat2 = 464700 /\ lng2 = 72831 -> 127749
    [] lat2 = 465339 /\ lng2 = 98717 -> 137507
    [] lat2 = 464167 /\ lng2 = 77667 -> 110866
    [] lat2 = 468333 /\ lng2 = 80333 -> 60491
    [] lat2 = 468000 /\ lng2 = 98167 -> 117541
    [] lat2 = 468167 /\ lng2 = 98333 -> 117782
    [] lat2 = 470139 /\ lng2 = 88581 -> 44258
    [] lat2 = 470867 /\ lng2 = 93344 -> 70961
    [] lat2 = 468000 /\ lng2 = 82000 -> 58494

\* Math.round(x) for x = n / d, d > 0
RoundDiv(n, d) == (2 * n + d) \div (2 * d)

challengingRoutes ==
  { <<"l", "a", "u", "c", "h", "e", "r", "n", "a", "l", "p", "-", "l", "o", "e", "t", "s", "c", "h", "e", "n", "t", "a", "l">>,
    <<"s", "a", "a", "s", "-", "f", "e", "e">>,
    <<"z", "e", "r", "m", "a", "t", "t">>,
    <<"o", "b", "e", "r", "g", "o", "m", "s", "-", "g", "o", "m", "s">>,
    <<"r", "e", "a", "l", "p">> }

\* An estimate that looks at the distance before the pass routes.
estimateDriveTimeDistanceFirst(distanceMetres, resortId) ==
  LET challenging == resortId \in challengingRoutes
      speedKmh  == IF distanceMetres <= 50 * 1000 THEN 100
                   ELSE IF distanceMetres > 150 * 1000 THEN 60
                   ELSE IF challenging THEN 45
                   ELSE 80
      baseDelay == IF distanceMetres <= 50 * 1000 THEN 10
                   ELSE IF distanceMetres > 150 * 1000 THEN 20
                   ELSE IF challenging THEN 45
                   ELSE 15
  IN  RoundDiv(distanceMetres * 60, 1000 * speedKmh) + baseDelay

\* distanceMetres is the unrounded distance; the result is in minutes.
estimateDriveTime(distanceMetres, resortId) ==
  LET challenging == resortId \in challengingRoutes
      speedKmh  == IF challenging THEN 45
                   ELSE IF distanceMetres <= 50 * 1000 THEN 100
                   ELSE IF distanceMetres > 150 * 1000 THEN 60
                   ELSE 80
      baseDelay == IF challenging THEN 45
                   ELSE IF distanceMetres <= 50 * 1000 THEN 10
                   ELSE IF distanceMetres > 150 * 1000 THEN 20
                   ELSE 15
  IN  \* Math.round(distanceKm / speedKmh * 60 + baseDelay)
      RoundDiv(distanceMetres * 60, 1000 * speedKmh) + baseDelay

\* What the routing service answers for a destination when it answers: a
\* road 1.3 times the great-circle distance, driven at 70 km/h, the duration
\* in the "<seconds>s" form.
RouteService(lat, lng) ==
  LET metres == (calculateDistance(HEDINGEN_COORDS.lat, HEDINGEN_COORDS.lng, lat, lng) * 13) \div 10
  IN  [distanceMeters |-> metres, durationSeconds |-> (metres * 3600) \div 70000]

\* What parseInt gives for a string that does not start with a digit, and
\* what arithmetic on it gives.
NaN == -2

DigitChars == <<"0", "1", "2", "3", "4", "5", "6", "7", "8", "9">>

IsDigit(c) == \E k \in DOMAIN DigitChars : DigitChars[k] = c

DigitValue(c) == (CHOOSE k \in DOMAIN DigitChars : DigitChars[k] = c) - 1

\* The decimal digits of a natural number, as the service writes them.
RECURSIVE Digits(_)
Digits(n) ==
  IF n < 10 THEN <<DigitChars[n + 1]>>
  ELSE Append(Digits(n \div 10), DigitChars[(n % 10) + 1])

\* The number of digits a string starts with.
RECURSIVE leadingDigits(_)
leadingDigits(s) ==
  IF s = <<>> \/ ~IsDigit(Head(s)) THEN 0 ELSE 1 + leadingDigits(Tail(s))

RECURSIVE digitsValue(_, _)
digitsValue(s, acc) ==
  IF s = <<>> THEN acc ELSE digitsValue(Tail(s), 10 * acc + DigitValue(Head(s)))

\* parseInt on a string without sign or leading blanks: the value of the
\* digits it starts with, whatever follows them.
parseInt(s) ==
  IF leadingDigits(s) = 0 THEN NaN
  ELSE digitsValue(SubSeq(s, 1, leadingDigits(s)), 0)

startsWith(s, p) == Len(s) >= Len(p) /\ SubSeq(s, 1, Len(p)) = p

endsWith(s, p) == Len(s) >= Len(p) /\ SubSeq(s, Len(s) - Len(p) + 1, Len(s)) = p

\* String.prototype.replace(c, ''): the first occurrence is removed.
RECURSIVE removeFirst(_, _)
removeFirst(s, c) ==
  IF s = <<>> THEN s
  ELSE IF Head(s) = c THEN Tail(s)
  ELSE <<Head(s)>> \o removeFirst(Tail(s), c)

\* One optional group (?:(\d+)U)? of the duration pattern at the head of s:
\* the digits when the unit letter follows them, otherwise nothing is
\* consumed and the capture falls back to '0'.
unitGroup(s, unit) ==
  IF leadingDigits(s) > 0 /\ Len(s) > leadingDigits(s) /\ s[leadingDigits(s) + 1] = unit
    THEN [ value |-> parseInt(s), rest |-> SubSeq(s, leadingDigits(s) + 2, Len(s)) ]
    ELSE [ value |-> 0, rest |-> s ]

\* hours * 60 + minutes + Math.round(seconds / 60) of the match of
\* /PT(?:(\d+)H)?(?:(\d+)M)?(?:(\d+)S)?/; the pattern matches every string
\* that starts with PT.
isoSeconds(hours, minutes, afterMinutes) ==
  hours * 60 + minutes + RoundDiv(unitGroup(afterMinutes, "S").value, 60)

isoMinutes(hours, afterHours) ==
  isoSeconds(hours, unitGroup(afterHours, "M").value, unitGroup(afterHours, "M").rest)

isoDuration(afterPT) ==
  isoMinutes(unitGroup(afterPT, "H").value, unitGroup(afterPT, "H").rest)

\* Math.round(parseInt(...) / 60)
roundMinutes(seconds) == IF seconds = NaN THEN NaN ELSE RoundDiv(seconds, 60)

\* totalMinutes of callGoogleMapsAPI, or None where it returns null.
parseDuration(duration) ==
  IF startsWith(duration, <<"P", "T">>)
    THEN Some(isoDuration(SubSeq(duration, 3, Len(duration))))
  ELSE IF endsWith(duration, <<"s">>)
    THEN Some(roundMinutes(parseInt(removeFirst(duration, "s"))))
  ELSE None

\* The duration of a route in the forms the service may write it.
secondsForm(seconds) == Digits(seconds) \o <<"s">>

isoForm(seconds) ==
  <<"P", "T">> \o Digits(seconds \div 3600) \o <<"H">>
    \o Digits((seconds % 3600) \div 60) \o <<"M">> \o Digits(seconds % 60) \o <<"S">>

minutesForm(seconds) == Digits(seconds \div 60) \o <<" ", "m", "i", "n">>

\* What axios.post gives back, by the state of the service: the request
\* throws (network error, non-2xx status), or a body with a list of routes.
routeWith(route, duration) ==
  [ throws |-> FALSE,
    routes |-> <<[distanceMeters |-> route.distanceMeters, duration |-> duration]>> ]

routeAnswer(service, route) ==
  CASE service = "down"           -> [throws |-> TRUE, routes |-> <<>>]
    [] service = "noroutes"       -> [throws |-> FALSE, routes |-> <<>>]
    [] service = "up"             -> routeWith(route, secondsForm(route.durationSeconds))
    [] service = "iso"            -> routeWith(route, isoForm(route.durationSeconds))
    [] service = "minutes"        -> routeWith(route, minutesForm(route.durationSeconds))
    [] service = "garbledIso"     -> routeWith(route, <<"P", "T", "1", "H", "3", "o", "M">>)
    [] service = "garbledSeconds" -> routeWith(route, <<"1", "2", "x", "4", "s">>)

\* The part of callGoogleMapsAPI after the request.
parsedRoute(distanceMeters, totalMinutes) ==
  IF totalMinutes = None THEN [issued |-> TRUE, result |-> None]
  ELSE [ issued |-> TRUE,
         result |-> Some([ distanceKm |-> RoundDiv(distanceMeters, 100),
                           durationMinutes |-> totalMinutes[1] ]) ]

routeResult(response) ==
  IF response.throws \/ response.routes = <<>>
    THEN [issued |-> TRUE, result |-> None]
    ELSE parsedRoute(response.routes[1].distanceMeters,
                     parseDuration(response.routes[1].duration))

\* callGoogleMapsAPI: null without a key (no request is sent), on a request
\* that throws, on an empty route list and on a duration in neither form;
\* otherwise the first route, converted.  issued tells whether a request
\* went out.
callGoogleMapsAPI(service, destLat, destLng) ==
  IF service = "nokey" THEN [issued |-> FALSE, result |-> None]
  ELSE routeResult(routeAnswer(service, RouteService(destLat, destLng)))

\* The row getDriveEstimate stores for an estimate made at time t.
driveTimeData(resortId, distanceKm, driveTimeMinutes, t) ==
  [ resortId |-> resortId, origin |-> "Hedingen",
    driveTimeMinutes |-> driveTimeMinutes, distanceKm |-> distanceKm,
    cachedAt |-> t ]

\* The fallback of getDriveEstimate: great-circle distance and the
\* speed table.
fallbackEstimate(resortId, distance) ==
  [ resortId |-> resortId, distanceKm |-> RoundDiv(distance, 100),
    driveTimeMinutes |-> estimateDriveTime(distance, resortId) ]

\* getDriveEstimate once the cache and, on a miss, the routing service
\* have answered.
driveEstimateFrom(table, resort, t, cached, google, fallback) ==
  IF cached # None
    THEN [ estimate |-> [ resortId |-> resort.internalId,
                          distanceKm |-> cached[1].distanceKm,
                          driveTimeMinutes |-> cached[1].driveTimeMinutes ],
           table |-> table, calls |-> 0, source |-> "cache" ]
  ELSE IF google.result # None
    THEN [ estimate |-> [ resortId |-> resort.internalId,
                          distanceKm |-> google.result[1].distanceKm,
                          driveTimeMinutes |-> google.result[1].durationMinutes ],
           table |-> storeDriveTime(table,
                       driveTimeData(resort.internalId, google.result[1].distanceKm,
                                     google.result[1].durationMinutes, t)),
           calls |-> 1, source |-> "live" ]
  ELSE [ estimate |-> fallback,
         table |-> storeDriveTime(table,
                     driveTimeData(resort.internalId, fallback.distanceKm,
                                   fallback.driveTimeMinutes, t)),
         calls |-> IF google.issued THEN 1 ELSE 0, source |-> "fallback" ]

\* getDriveEstimate: the estimate returned, the table afterwards and the
\* number of requests sent to the routing service.
getDriveEstimate(table, resort, service, t) ==
  driveEstimateFrom(table, resort, t,
    getDriveTime(table, resort.internalId, "Hedingen", t),
    callGoogleMapsAPI(service, resort.resort.coordinates.lat,
                      resort.resort.coordinates.lng),
    fallbackEstimate(resort.internalId,
      calculateDistance(HEDINGEN_COORDS.lat, HEDINGEN_COORDS.lng,
                        resort.resort.coordinates.lat,
                        resort.resort.coordinates.lng)))

(***************************************************************************)
(* Recommendation pipeline (recommendations.ts).                           *)
(***************************************************************************)
\* The mapping getRecommendations uses for a key of the conditions map: the
\* registry entry, or a mock mapping whose status comes from the lifts.
resortFor(conditionsMap, resortId) ==
  LET existingMapping == findIndexByInternalId(resortId)
      conds  == conditionsMapGet(conditionsMap, resortId)
      isOpen == IF conds # None /\ conds[1].liftsOpen # NULL /\ conds[1].liftsOpen > 0
                  THEN "OPEN" ELSE "CLOSED"
  IN  IF existingMapping # 0
        THEN [ internalId |-> RESORT_DATABASE[existingMapping].internalId,
               resort     |-> RESORT_DATABASE[existingMapping].resort ]
        ELSE [ internalId |-> resortId,
               resort     |-> [ id |-> resortId, coordinates |-> DefaultCoordinates,
                                seasonStatus |-> isOpen, priority |-> 3,
                                difficulty |-> "mixed", hasPark |-> FALSE,
                                hasNightRiding |-> FALSE,
                                operatingHours |-> NoOperatingHours ] ]

\* The loop over the resorts: one estimate after the other, each on the
\* table the previous one left.
RECURSIVE driveEstimatesOf(_, _, _, _)
driveEstimatesOf(resorts, table, service, t) ==
  IF resorts = <<>> THEN [estimates |-> <<>>, table |-> table, calls |-> 0]
  ELSE LET one  == getDriveEstimate(table, Head(resorts), service, t)
           rest == driveEstimatesOf(Tail(resorts), one.table, service, t)
       IN  [ estimates |-> <<[resort |-> Head(resorts), estimate |-> one.estimate]>>
                             \o rest.estimates,
             table |-> rest.table,
             calls |-> one.calls + rest.calls ]

\* Conditions merged into the resort data (missing values become 0).
resortWithConditions(resort, conds) ==
  [ id |-> resort.id, coordinates |-> resort.coordinates,
    seasonStatus |-> resort.seasonStatus, priority |-> resort.priority,
    difficulty |-> resort.difficulty, hasPark |-> resort.hasPark,
    hasNightRiding |-> resort.hasNightRiding,
    operatingHours |-> resort.operatingHours,
    mountainDepth |-> IF conds = None THEN 0 ELSE OrElse(conds[1].mountainDepth, 0),
    valleyDepth   |-> IF conds = None THEN 0 ELSE OrElse(conds[1].valleyDepth, 0),
    newSnow       |-> IF conds = None THEN 0 ELSE OrElse(conds[1].newSnow, 0),
    liftsOpen     |-> IF conds = None THEN 0 ELSE OrElse(conds[1].liftsOpen, 0),
    liftsTotal    |-> IF conds = None THEN 0 ELSE OrElse(conds[1].liftsTotal, 0),
    lastUpdate    |-> IF conds = None THEN NULL ELSE conds[1].lastUpdate ]

recommendationOf(resort, conds, estimate, t) ==
  LET merged == resortWithConditions(resort, conds)
  IN  [ resort |-> merged, score |-> calculateScore(merged, t),
        driveTime |-> estimate.driveTimeMinutes, distance |-> estimate.distanceKm ]

\* Array.prototype.sort with (a, b) => b.score.score - a.score.score: a
\* stable sort, highest score first.
\* An insertion that puts a recommendation before those of equal score.
RECURSIVE insertBeforeEquals(_, _)
insertBeforeEquals(sorted, rec) ==
  IF sorted = <<>> THEN <<rec>>
  ELSE IF RatLE(Head(sorted).score.score, rec.score.score)
    THEN <<rec>> \o sorted
    ELSE <<Head(sorted)>> \o insertBeforeEquals(Tail(sorted), rec)

RECURSIVE insertByScore(_, _)
insertByScore(sorted, rec) ==
  IF sorted = <<>> THEN <<rec>>
  ELSE IF RatLT(Head(sorted).score.score, rec.score.score)
    THEN <<rec>> \o sorted
    ELSE <<Head(sorted)>> \o insertByScore(Tail(sorted), rec)

RECURSIVE sortByScore(_, _)
sortByScore(recs, acc) ==
  IF recs = <<>> THEN acc
  ELSE sortByScore(Tail(recs), insertByScore(acc, Head(recs)))

\* The season filter left out: every recommendation passes.
filterBySeasonKeepsAll(recs, includeClosed) == recs

\* Closed resorts are filtered out unless explicitly requested.
filterBySeason(recs, includeClosed) ==
  LET seasonOpen(rec) == rec.resort.seasonStatus = "OPEN"
  IN  IF ~includeClosed THEN SelectSeq(recs, seasonOpen) ELSE recs

\* The score filter left out: every recommendation passes.
filterByMinScoreKeepsAll(recs, minScore) == recs

\* Filter by minimum score.
filterByMinScore(recs, minScore) ==
  LET scoreOk(rec) == RatLE(RatInt(minScore), rec.score.score)
  IN  SelectSeq(recs, scoreOk)

\* Array.prototype.slice(0, limit)
sliceTo(s, limit) == SubSeq(s, 1, Min(Max(limit, 0), Len(s)))

\* Resort objects for every registry entry, with or without conditions.
resortsOfWholeRegistry(conditionsMap) ==
  [i \in DOMAIN RESORT_DATABASE |->
     [internalId |-> RESORT_DATABASE[i].internalId, resort |-> RESORT_DATABASE[i].resort]]

\* The resort objects created for the keys of conditionsMap.
resortsOf(conditionsMap) ==
  [i \in DOMAIN conditionsMap |-> resortFor(conditionsMap, conditionsMap[i].resortId)]

\* The scoring loop: it runs over driveEstimates.
scoredRecommendationsOf(conditionsMap, driveEstimates, t) ==
  [i \in DOMAIN driveEstimates |->
     recommendationOf(driveEstimates[i].resort.resort,
                      conditionsMapGet(conditionsMap, driveEstimates[i].resort.internalId),
                      driveEstimates[i].estimate, t)]

\* resortsWithinDriveTime, computed for the summary.
resortsWithinDriveTime(driveEstimates, maxDriveTime) ==
  LET withinDrive(e) == e.estimate.driveTimeMinutes <= maxDriveTime
  IN  SelectSeq(driveEstimates, withinDrive)

\* The object getRecommendations returns, with the table afterwards, the
\* requests sent and the local scoredRecommendations.
resultOf(totalConsidered, driven, filteredByDrive, scoredRecommendations, filteredRecommendations, filteredByScore, final) ==
  [ recommendations |-> final,
    summary |-> [ totalConsidered  |-> totalConsidered,
                  filteredByDrive  |-> filteredByDrive,
                  filteredBySeason |-> Len(filteredRecommendations),
                  filteredByScore  |-> Len(filteredByScore),
                  finalCount       |-> Len(final) ],
    scoredRecommendations |-> scoredRecommendations,
    table |-> driven.table,
    calls |-> driven.calls ]

\* Season filter, score filter, sort and slice.
rankFrom(totalConsidered, driven, scoredRecommendations, filteredRecommendations, filteredByScore, options) ==
  resultOf(totalConsidered, driven,
           Len(resortsWithinDriveTime(driven.estimates, options.maxDriveTime)),
           scoredRecommendations, filteredRecommendations, filteredByScore,
           sliceTo(sortByScore(filteredByScore, <<>>), options.limit))

filterFrom(totalConsidered, driven, scoredRecommendations, filteredRecommendations, options) ==
  rankFrom(totalConsidered, driven, scoredRecommendations, filteredRecommendations,
           filterByMinScore(filteredRecommendations, options.minScore), options)

scoreFrom(conditionsMap, driven, scoredRecommendations, options) ==
  filterFrom(Len(conditionsMap), driven, scoredRecommendations,
             filterBySeason(scoredRecommendations, options.includeClosed), options)

estimateFrom(conditionsMap, driven, t, options) ==
  scoreFrom(conditionsMap, driven,
            scoredRecommendationsOf(conditionsMap, driven.estimates, t), options)

recommendFrom(conditionsMap, table, service, t, options) ==
  estimateFrom(conditionsMap,
               driveEstimatesOf(resortsOf(conditionsMap), table, service, t),
               t, options)

\* getRecommendations(options) on the store and the cache as they are at t.
getRecommendations(rows, table, service, t, options) ==
  recommendFrom(getAllLatestConditions(rows, t), table, service, t, options)

(***************************************************************************)
(* Inputs of the model.                                                    *)
(***************************************************************************)
Week0 == 105 * 7 * 24 * 60

\* Friday 10:00
StartTimes == {Week0 + 5 * 24 * 60 + 600}

\* 25 hours, and a year and a day
TickSteps == {25 * 60, oneYear + 24 * 60}

NameEngelberg == <<"E", "n", "g", "e", "l", "b", "e", "r", "g", " ", "T", "i", "t", "l", "i", "s">>
NameHochYbrig == <<"H", "o", "c", "h", "-", "Y", "b", "r", "i", "g">>
NameAirolo    == <<"A", "i", "r", "o", "l", "o">>
NameGstaad    == <<"G", "s", "t", "a", "a", "d">>

\* The season status the scraper derives from the lifts of a row: no lift or
\* no count is CLOSED, two lifts or more is OPEN, one lift is null.
scrapedSeasonStatus(liftsOpen) ==
  IF liftsOpen = 0 \/ liftsOpen = NULL THEN "CLOSED"
  ELSE IF liftsOpen >= 2 THEN "OPEN"
  ELSE "null"

\* A row of the bergfex table as the scraper hands it over: the id is the
\* slug of the name; a relative or absolute date is already a timestamp.
Scraped(name, valley, mountain, new, open, total, update) ==
  [ name |-> name, resortId |-> createResortId(name), valleyDepth |-> valley,
    mountainDepth |-> mountain, newSnow |-> new, liftsOpen |-> open,
    liftsTotal |-> total, lastUpdate |-> update ]

\* Scraped rows handed to the store at time t.
ScrapedSamples(t) ==
  { Scraped(NameEngelberg, 30, 175, 5, 8, 23, t),
    Scraped(NameAirolo, NULL, 83, NULL, 1, 13, t),
    Scraped(NameAirolo, NULL, NULL, NULL, NULL, NULL, NULL),
    Scraped(NameGstaad, NULL, 83, NULL, 1, 13, NULL) }

\* One scrape of ten minus three destinations: with the three sample rows the
\* store then holds ten, of which three lie beyond 180 minutes (Zermatt,
\* Saas-Fee, Lauchernalp), two others are closed for the season (Hoch-Ybrig,
\* Flumserberg) and one other has neither snow nor lifts (Gstaad).
TenDestinations(t) ==
  << Scraped(RESORT_DATABASE[10].bergfexName, 40, 150, 2, 4, 5, t),
     Scraped(RESORT_DATABASE[14].bergfexName, 0, 0, 0, 0, 6, t),
     Scraped(RESORT_DATABASE[15].bergfexName, 0, 0, 0, 0, 17, t),
     Scraped(RESORT_DATABASE[8].bergfexName, 0, 0, 0, 0, 30, t),
     Scraped(RESORT_DATABASE[4].bergfexName, 40, 150, 2, 10, 20, t),
     Scraped(RESORT_DATABASE[7].bergfexName, 40, 150, 2, 10, 20, t),
     Scraped(RESORT_DATABASE[11].bergfexName, 40, 150, 2, 10, 20, t) >>

\* One scrape that lists a destination twice, the second time without data.
ListedTwice(t) ==
  << Scraped(NameAirolo, NULL, 83, NULL, 1, 13, t),
     Scraped(NameAirolo, NULL, NULL, NULL, NULL, NULL, NULL) >>

\* What one call of the store is handed: a single row, or a whole scrape.
ScrapedBatches(t) ==
  {<<item>> : item \in ScrapedSamples(t)} \cup {TenDestinations(t), ListedTwice(t)}

\* Options of a recommendation request.
RecOptions ==
  { [maxDriveTime |-> 180, minScore |-> 10, limit |-> 5, includeClosed |-> FALSE],
    [maxDriveTime |-> 180, minScore |-> 10, limit |-> 5, includeClosed |-> TRUE],
    [maxDriveTime |-> 180, minScore |-> 0,  limit |-> 5, includeClosed |-> FALSE],
    [maxDriveTime |-> 180, minScore |-> 40, limit |-> 2, includeClosed |-> FALSE] }

\* Registry entries estimated on their own (resort details, closed resorts,
\* start-up initialisation): Engelberg Titlis, Zermatt, Hoch-Ybrig.
EstimateTargets == {1, 2, 14}

\* What the drive_times table may hold from earlier runs of the program.
InitialDriveTimes(t) ==
  { {},
    { [ resort_id |-> RESORT_DATABASE[1].internalId, origin |-> "Hedingen",
        drive_time_minutes |-> 72, distance_km |-> 680,
        cached_at |-> t - 10 * 24 * 60 ] },
    { [ resort_id |-> RESORT_DATABASE[1].internalId, origin |-> "Hedingen",
        drive_time_minutes |-> 72, distance_km |-> 680,
        cached_at |-> t - oneYear - 60 ] } }

NoScoreIn  == [none |-> TRUE]
NoScoreOut == [none |-> TRUE]

\* getResortDetails(resortId): null for an identity the registry does not
\* hold, else the recommendation built from the record getLatestConditions
\* returns and from the estimate; the table afterwards and the requests sent.
getResortDetails(rows, table, service, t, resortId) ==
  LET at == findIndexByInternalId(resortId)
  IN  IF at = 0 THEN [details |-> None, table |-> table, calls |-> 0]
      ELSE \* the record and the estimate are computed once each
           LET resort == [ internalId |-> RESORT_DATABASE[at].internalId,
                           resort |-> RESORT_DATABASE[at].resort ]
               driveEstimate == getDriveEstimate(table, resort, service, t)
           IN  [ details |-> Some(recommendationOf(resort.resort,
                                    getLatestConditions(rows, resortId, t),
                                    driveEstimate.estimate, t)),
                 table |-> driveEstimate.table, calls |-> driveEstimate.calls ]

(***************************************************************************)
(* The state machine of the service.                                       *)
(***************************************************************************)
Init ==
  /\ now \in StartTimes
  /\ conditions = mockConditions(now)
  /\ driveTimes \in InitialDriveTimes(now)
  /\ api \in {"nokey", "down", "up"}
  /\ ops = 0
  /\ last = [op |-> "init"]
  /\ tasks = <<>>
  /\ scoreIn = NoScoreIn
  /\ scoreOut = NoScoreOut

\* Time passes.
Tick ==
  /\ ops < MaxOps
  /\ ops' = ops + 1
  /\ \E d \in TickSteps : now' = now + d
  /\ last' = [op |-> "tick"]
  /\ UNCHANGED <<conditions, driveTimes, api, scoreIn, scoreOut, tasks>>

\* The routing service becomes unreachable, or reachable again.
ApiToggle ==
  /\ ops < MaxOps
  /\ ops' = ops + 1
  /\ api \in {"down", "up"}
  /\ api' = IF api = "down" THEN "up" ELSE "down"
  /\ last' = [op |-> "api"]
  /\ UNCHANGED <<conditions, driveTimes, now, scoreIn, scoreOut, tasks>>

\* DataStorageService.storeBergfexConditions(scrapedData)
Store ==
  \E scrapedData \in ScrapedBatches(now) :
    LET item == scrapedData[1]
    IN  /\ ops < MaxOps
        /\ ops' = ops + 1
        /\ conditions' = storeBergfexConditions(conditions, scrapedData, now)
        /\ last' = [ op |-> "store", scrapedData |-> scrapedData,
                     before |-> Len(conditions),
                     again |-> /\ Len(scrapedData) = 1
                               /\ conditions # <<>>
                               /\ sameRecord(conditions[Len(conditions)],
                                             storeBergfexConditions(<<>>, scrapedData, now)[1]),
                     latestBefore |-> getLatestConditions(conditions, resolveResortId(item), now),
                     latestAllBefore |-> getAllLatestConditions(conditions, now) ]
        /\ UNCHANGED <<driveTimes, now, api, scoreIn, scoreOut, tasks>>

\* getRecommendations(options)
Recommend ==
  \E options \in RecOptions :
    \E r \in {getRecommendations(conditions, driveTimes, api, now, options)} :
        /\ ops < MaxOps
        /\ ops' = ops + 1
        /\ driveTimes' = r.table
        /\ last' = [ op |-> "recommend", options |-> options,
                     recommendations |-> r.recommendations, summary |-> r.summary,
                     scoredRecommendations |-> r.scoredRecommendations,
                     calls |-> r.calls ]
        /\ UNCHANGED <<conditions, now, api, scoreIn, scoreOut, tasks>>

\* getDriveEstimate(resort) for a registry entry
Estimate ==
  \E i \in EstimateTargets :
    LET resort == [ internalId |-> RESORT_DATABASE[i].internalId,
                    resort |-> RESORT_DATABASE[i].resort ]
        r == getDriveEstimate(driveTimes, resort, api, now)
        again == last.op = "estimate" /\ last.estimate.resortId = resort.internalId
    IN  /\ ops < MaxOps
        /\ ops' = ops + 1
        /\ driveTimes' = r.table
        /\ last' = [ op |-> "estimate", estimate |-> r.estimate, calls |-> r.calls,
                     source |-> r.source, service |-> api,
                     cachedBefore |-> {row \in driveTimes :
                                         /\ row.resort_id = resort.internalId
                                         /\ row.origin = "Hedingen"},
                     again |-> again,
                     previous |-> IF again THEN Some([estimate |-> last.estimate,
                                                      calls |-> last.calls])
                                  ELSE None ]
        /\ UNCHANGED <<conditions, now, api, scoreIn, scoreOut, tasks>>

Next == Tick \/ ApiToggle \/ Store \/ Recommend \/ Estimate

Spec == Init /\ [][Next]_vars

(***************************************************************************)
(* The service with the details query: stores, requests for               *)
(* recommendations and requests for the details of one destination.       *)
(***************************************************************************)
\* The identities details are asked for: those of the last answer, and one
\* the registry holds without a record.
DetailsTargets ==
  (IF last.op = "recommend"
     THEN {last.recommendations[k].resort.id : k \in DOMAIN last.recommendations}
     ELSE {})
    \cup {RESORT_DATABASE[2].internalId}

DetailsInit ==
  /\ now \in StartTimes
  /\ conditions = mockConditions(now)
  /\ driveTimes \in InitialDriveTimes(now)
  /\ api \in {"down", "up"}
  /\ ops = 0
  /\ last = [op |-> "init"]
  /\ tasks = <<>>
  /\ scoreIn = NoScoreIn
  /\ scoreOut = NoScoreOut

\* getResortDetails(resortId)
Details ==
  \E resortId \in DetailsTargets :
    \E r \in {getResortDetails(conditions, driveTimes, api, now, resortId)} :
        /\ ops < MaxOps
        /\ ops' = ops + 1
        /\ driveTimes' = r.table
        /\ last' = [ op |-> "details", resortId |-> resortId, details |-> r.details,
                     recommended |-> IF last.op = "recommend"
                                       THEN {last.recommendations[k] :
                                               k \in {j \in DOMAIN last.recommendations :
                                                        last.recommendations[j].resort.id = resortId}}
                                       ELSE {} ]
        /\ UNCHANGED <<conditions, now, api, scoreIn, scoreOut, tasks>>

DetailsNext == Tick \/ Store \/ Recommend \/ Details

DetailsSpec == DetailsInit /\ [][DetailsNext]_vars

(***************************************************************************)
(* The service when bergfex lists lifts and snow for destinations the      *)
(* registry marks closed for the season.                                   *)
(***************************************************************************)
\* Rows for Hoch-Ybrig and Flumserberg (CLOSED in the registry) with lifts
\* running and snow, for Hoch-Ybrig without either, and one for Engelberg.
ClosedSeasonSamples(t) ==
  { Scraped(RESORT_DATABASE[14].bergfexName, 20, 120, 10, 5, 6, t),
    Scraped(RESORT_DATABASE[15].bergfexName, NULL, 60, NULL, 3, 17, t),
    Scraped(RESORT_DATABASE[14].bergfexName, 0, 0, 0, 0, 6, t),
    Scraped(NameEngelberg, 30, 175, 5, 8, 23, t) }

SeasonInit ==
  /\ now \in StartTimes
  /\ conditions = mockConditions(now)
  /\ driveTimes \in InitialDriveTimes(now)
  /\ api \in {"nokey", "down", "up"}
  /\ ops = 0
  /\ last = [op |-> "init"]
  /\ tasks = <<>>
  /\ scoreIn = NoScoreIn
  /\ scoreOut = NoScoreOut

\* DataStorageService.storeBergfexConditions with one of these rows
StoreClosedSeason ==
  \E item \in ClosedSeasonSamples(now) :
    /\ ops < MaxOps
    /\ ops' = ops + 1
    /\ conditions' = storeBergfexConditions(conditions, <<item>>, now)
    /\ last' = [op |-> "store", scrapedData |-> <<item>>, before |-> Len(conditions)]
    /\ UNCHANGED <<driveTimes, now, api, scoreIn, scoreOut, tasks>>

SeasonNext == Tick \/ StoreClosedSeason \/ Recommend

SeasonSpec == SeasonInit /\ [][SeasonNext]_vars

(***************************************************************************)
(* The estimator against a routing service in any of its states.           *)
(***************************************************************************)
ServiceModes ==
  {"nokey", "down", "noroutes", "up", "iso", "minutes", "garbledIso", "garbledSeconds"}

RouteInit ==
  /\ now \in StartTimes
  /\ conditions = mockConditions(now)
  /\ driveTimes \in InitialDriveTimes(now)
  /\ api \in ServiceModes
  /\ ops = 0
  /\ last = [op |-> "init"]
  /\ tasks = <<>>
  /\ scoreIn = NoScoreIn
  /\ scoreOut = NoScoreOut

\* The routing service changes the way it answers.
ServiceChange ==
  /\ ops < MaxOps
  /\ ops' = ops + 1
  /\ api # "nokey"
  /\ api' \in ServiceModes \ {"nokey", api}
  /\ last' = [op |-> "api"]
  /\ UNCHANGED <<conditions, driveTimes, now, scoreIn, scoreOut, tasks>>

RouteNext == Tick \/ ServiceChange \/ Estimate

RouteSpec == RouteInit /\ [][RouteNext]_vars

(***************************************************************************)
(* The estimator during an outage that lasts: no key, or a service that    *)
(* gives no usable route, and a cache that starts empty.                   *)
(***************************************************************************)
OutageModes == {"nokey", "down", "noroutes", "minutes"}

OutageInit ==
  /\ now \in StartTimes
  /\ conditions = mockConditions(now)
  /\ driveTimes = {}
  /\ api \in OutageModes
  /\ ops = 0
  /\ last = [op |-> "init"]
  /\ tasks = <<>>
  /\ scoreIn = NoScoreIn
  /\ scoreOut = NoScoreOut

OutageChange ==
  /\ ops < MaxOps
  /\ ops' = ops + 1
  /\ api # "nokey"
  /\ api' \in OutageModes \ {"nokey", api}
  /\ last' = [op |-> "api"]
  /\ UNCHANGED <<conditions, driveTimes, now, scoreIn, scoreOut, tasks>>

OutageNext == Tick \/ OutageChange \/ Estimate

OutageSpec == OutageInit /\ [][OutageNext]_vars

(***************************************************************************)
(* The request to the routing service as two steps: axios.post is sent,    *)
(* and the await resumes when the service answers.  The request carries no *)
(* timeout option, so nothing else resumes it.                             *)
(***************************************************************************)
AwaitInit ==
  /\ now \in StartTimes
  /\ conditions = mockConditions(now)
  /\ driveTimes \in InitialDriveTimes(now)
  /\ api \in (ServiceModes \ {"nokey"}) \cup {"silent"}
  /\ ops = 0
  /\ last = [op |-> "init"]
  /\ tasks = <<>>
  /\ scoreIn = NoScoreIn
  /\ scoreOut = NoScoreOut

\* The service stops answering, or answers again.
AwaitChange ==
  /\ ops < MaxOps
  /\ ops' = ops + 1
  /\ last.op # "awaiting"
  /\ api' \in {"silent", "up", "down"} \ {api}
  /\ last' = [op |-> "api"]
  /\ UNCHANGED <<conditions, driveTimes, now, scoreIn, scoreOut, tasks>>

\* getDriveEstimate up to `await axios.post(...)`: a cache miss with a key.
\* Nothing else runs between the request and its answer, so what the rest of
\* getDriveEstimate does with the answer is settled when the request leaves;
\* `outcome` holds it, and holds nothing when the service stays silent.
Request ==
  \E i \in EstimateTargets :
    /\ ops < MaxOps
    /\ ops' = ops + 1
    /\ last.op # "awaiting"
    /\ getDriveTime(driveTimes, RESORT_DATABASE[i].internalId, "Hedingen", now) = None
    /\ \E r \in {IF api = "silent" THEN None
                 ELSE Some(getDriveEstimate(driveTimes,
                             [ internalId |-> RESORT_DATABASE[i].internalId,
                               resort |-> RESORT_DATABASE[i].resort ],
                             api, now))} :
         last' = [op |-> "awaiting", target |-> i, service |-> api, outcome |-> r]
    /\ UNCHANGED <<conditions, driveTimes, now, api, scoreIn, scoreOut, tasks>>

\* The service answers the request and getDriveEstimate runs to its end.
Answer ==
  /\ last.op = "awaiting"
  /\ last.outcome # None
  /\ driveTimes' = last.outcome[1].table
  /\ last' = [ op |-> "estimate", estimate |-> last.outcome[1].estimate,
               calls |-> last.outcome[1].calls, source |-> last.outcome[1].source,
               service |-> last.service ]
  /\ UNCHANGED <<conditions, now, api, ops, scoreIn, scoreOut, tasks>>

AwaitNext == AwaitChange \/ Request \/ Answer

AwaitSpec == AwaitInit /\ [][AwaitNext]_vars /\ WF_vars(Answer)

(***************************************************************************)
(* The operations that ask for estimates, as they run on the event loop:   *)
(* the startup initializer, the estimate loop of getRecommendations,       *)
(* getClosedResorts and getDriveEstimates.  An operation runs until it     *)
(* awaits the routing service or a timer; what it awaits is part of its    *)
(* task.  A task holds the registry entries still to be estimated (todo),  *)
(* those whose request is out (flying), whether it waits for its timer,    *)
(* whether a timer has run since its last request (spaced), the entries it *)
(* has sent a request for (called) and the estimates it has got (results). *)
(***************************************************************************)
MaxTasks == 2

\* The list getDriveEstimates is called with.
BatchTargets == <<1, 2, 14, 15>>

mappingOf(i) == [internalId |-> RESORT_DATABASE[i].internalId, resort |-> RESORT_DATABASE[i].resort]

newTask(kind, todo) ==
  [ kind |-> kind, todo |-> todo, flying |-> {}, timer |-> FALSE, spaced |-> FALSE,
    called |-> {}, results |-> {} ]

resultOfEstimate(i, estimate) ==
  [ target |-> i, distanceKm |-> estimate.distanceKm,
    driveTimeMinutes |-> estimate.driveTimeMinutes ]

\* getDriveEstimate(resort) up to its first await, for entry i: a cache hit
\* returns, a miss sends the request.
beginEstimate(task, table, i, t) ==
  IF getDriveTime(table, RESORT_DATABASE[i].internalId, "Hedingen", t) # None
    THEN [task EXCEPT !.results = @ \cup
            {resultOfEstimate(i, getDriveEstimate(table, mappingOf(i), "nokey", t).estimate)}]
    ELSE [task EXCEPT !.flying = @ \cup {i}, !.called = @ \cup {i}, !.spaced = FALSE]

\* `for (const resort of resorts) { await getDriveEstimate(resort); await
\* new Promise(resolve => setTimeout(resolve, ...)) }`: the next entry is
\* begun; after a cache hit the loop is at its timer.
beginNext(task, table, t) ==
  IF task.todo = <<>> THEN task
  ELSE LET begun == beginEstimate([task EXCEPT !.todo = Tail(@)], table, Head(task.todo), t)
       IN  [begun EXCEPT !.timer = (begun.flying = {})]

\* `Promise.all(resorts.map(resort => getDriveEstimate(resort)))`: every
\* entry is begun before anything is awaited.
RECURSIVE beginAll(_, _, _)
beginAll(task, table, t) ==
  IF task.todo = <<>> THEN task
  ELSE beginAll(beginEstimate([task EXCEPT !.todo = Tail(@)], table, Head(task.todo), t),
                table, t)

\* The requests a step of a task sent, and those of them sent although the
\* task had sent one before with no timer since.
sentBy(before, after) == Cardinality(after.called \ before.called)

unspacedBy(before, after) ==
  IF before.called # {} /\ ~before.spaced THEN sentBy(before, after)
  ELSE Max(sentBy(before, after) - 1, 0)

\* The registry entries the conditions map has keys for, in its order.
recommendTargets(conditionsMap) ==
  [k \in DOMAIN conditionsMap |-> findIndexByInternalId(conditionsMap[k].resortId)]

\* getAllResorts().filter(r => r.resort.seasonStatus === 'CLOSED')
closedTargets ==
  SelectSeq([k \in DOMAIN RESORT_DATABASE |-> k],
            LAMBDA k : RESORT_DATABASE[k].resort.seasonStatus = "CLOSED")

InFlight == {<<k, i>> \in (DOMAIN tasks) \X (DOMAIN RESORT_DATABASE) : i \in tasks[k].flying}

ConcurrentInit ==
  /\ now \in StartTimes
  /\ conditions = mockConditions(now)
  /\ driveTimes \in InitialDriveTimes(now)
  /\ api \in {"up", "down"}
  /\ ops = 0
  /\ last = [op |-> "init"]
  /\ scoreIn = NoScoreIn
  /\ scoreOut = NoScoreOut
  /\ tasks = <<>>

\* A task begins: `started` is the task after its first step.
Started(started, blank) ==
  /\ tasks' = Append(tasks, started)
  /\ last' = [ op |-> "start", task |-> Len(tasks) + 1,
               sent |-> sentBy(blank, started), unspaced |-> unspacedBy(blank, started) ]
  /\ UNCHANGED <<conditions, driveTimes, now, api, ops, scoreIn, scoreOut>>

\* initializePersistentDriveTimes(), called when the module is loaded: it
\* returns at once when the table holds a row.
StartInitialize ==
  /\ tasks = <<>>
  /\ \E blank \in {newTask("initialize",
                     IF driveTimes # {} THEN <<>>
                     ELSE [k \in DOMAIN RESORT_DATABASE |-> k])} :
       Started(beginNext(blank, driveTimes, now), blank)

\* getRecommendations(options): its loop over the estimates
StartRecommend ==
  /\ Len(tasks) < MaxTasks
  /\ \E blank \in {newTask("recommend",
                     recommendTargets(getAllLatestConditions(conditions, now)))} :
       Started(beginNext(blank, driveTimes, now), blank)

\* getClosedResorts()
StartClosed ==
  /\ Len(tasks) < MaxTasks
  /\ \E blank \in {newTask("closed", closedTargets)} :
       Started(beginAll(blank, driveTimes, now), blank)

\* getDriveEstimates(resorts)
StartBatch ==
  /\ Len(tasks) < MaxTasks
  /\ \E blank \in {newTask("batch", BatchTargets)} :
       Started(beginAll(blank, driveTimes, now), blank)

\* The routing service answers the request of task k for entry i: the rest
\* of getDriveEstimate runs (no second look at the cache), and a loop goes
\* on to its timer.
Answered(k, i) ==
  /\ i \in tasks[k].flying
  /\ \E r \in {driveEstimateFrom(driveTimes, mappingOf(i), now, None,
                 callGoogleMapsAPI(api, RESORT_DATABASE[i].resort.coordinates.lat,
                                   RESORT_DATABASE[i].resort.coordinates.lng),
                 fallbackEstimate(RESORT_DATABASE[i].internalId,
                   calculateDistance(HEDINGEN_COORDS.lat, HEDINGEN_COORDS.lng,
                                     RESORT_DATABASE[i].resort.coordinates.lat,
                                     RESORT_DATABASE[i].resort.coordinates.lng)))} :
       /\ driveTimes' = r.table
       /\ tasks' = [tasks EXCEPT ![k] =
                      [@ EXCEPT !.flying = @ \ {i},
                                !.results = @ \cup {resultOfEstimate(i, r.estimate)},
                                !.timer = (tasks[k].kind \in {"initialize", "recommend"})]]
  /\ last' = [op |-> "answer", task |-> k, target |-> i]
  /\ UNCHANGED <<conditions, now, api, ops, scoreIn, scoreOut>>

AnswerAny == \E k \in DOMAIN tasks : \E i \in DOMAIN RESORT_DATABASE : Answered(k, i)

\* The timer of the loop of task k runs out and the loop begins the next entry.
TimerFired(k) ==
  /\ tasks[k].timer
  /\ \E waited \in {[tasks[k] EXCEPT !.timer = FALSE, !.spaced = TRUE]} :
       \E begun \in {beginNext(waited, driveTimes, now)} :
         /\ tasks' = [tasks EXCEPT ![k] = begun]
         /\ last' = [ op |-> "timer", task |-> k,
                      sent |-> sentBy(waited, begun), unspaced |-> unspacedBy(waited, begun) ]
  /\ UNCHANGED <<conditions, driveTimes, now, api, ops, scoreIn, scoreOut>>

Timer == \E k \in DOMAIN tasks : TimerFired(k)

ConcurrentNext ==
  StartInitialize \/ StartRecommend \/ StartClosed \/ StartBatch \/ AnswerAny \/ Timer

ConcurrentSpec == ConcurrentInit /\ [][ConcurrentNext]_vars

(***************************************************************************)
(* The scoring function on its own: a resort record is drawn from a        *)
(* bounded product of field values and scored once.                        *)
(***************************************************************************)
\* Friday 10:00, Friday 20:00, Saturday 10:00
ScoreTimes ==
  { Week0 + 5 * 24 * 60 + 600, Week0 + 5 * 24 * 60 + 1200, Week0 + 6 * 24 * 60 + 600 }

ScoreHours ==
  { NoOperatingHours,
    [configured |-> TRUE, weekdays |-> <<510, 975>>, weekends |-> <<>>],
    [configured |-> TRUE, weekdays |-> <<510, 975>>, weekends |-> <<480, 1020>>] }

ScoreInputs ==
  [ seasonStatus   : {"OPEN", "CLOSED", "CLOSING_SOON"},
    mountainDepth  : {NULL, 0, 20, 50, 83, 100, 300},
    newSnow        : {NULL, 0, 10},
    liftsOpen      : {NULL, 0, 1, 20},
    liftsTotal     : {NULL, 0, 13, 20},
    hasPark        : BOOLEAN,
    hasNightRiding : BOOLEAN,
    difficulty     : {"mixed", "advanced"},
    operatingHours : ScoreHours ]

ScoreInit ==
  /\ now \in ScoreTimes
  /\ scoreIn \in ScoreInputs
  /\ scoreOut = NoScoreOut
  /\ conditions = <<>>
  /\ driveTimes = {}
  /\ api = "nokey"
  /\ ops = 0
  /\ last = [op |-> "init"]
  /\ tasks = <<>>

\* calculateScore(resort, currentTime)
Score ==
  /\ scoreOut = NoScoreOut
  /\ scoreOut' = calculateScore(scoreIn, now)
  /\ UNCHANGED <<conditions, driveTimes, now, api, ops, last, scoreIn, tasks>>

ScoreNext == Score

ScoreSpec == ScoreInit /\ [][ScoreNext]_vars

(***************************************************************************)
(* The depth normalisation on its own: two depths in order are drawn and   *)
(* normalised.                                                             *)
(***************************************************************************)
MaxDepth == 110

DepthPairs == {p \in [lower : 0..MaxDepth, upper : 0..MaxDepth] : p.lower <= p.upper}

DepthInit ==
  /\ now \in StartTimes
  /\ scoreIn \in DepthPairs
  /\ scoreOut = NoScoreOut
  /\ conditions = <<>>
  /\ driveTimes = {}
  /\ api = "nokey"
  /\ ops = 0
  /\ last = [op |-> "init"]
  /\ tasks = <<>>

\* normalizeSnowDepth(depth), for both depths
Normalize ==
  /\ scoreOut = NoScoreOut
  /\ scoreOut' = [ lower |-> normalizeSnowDepth(scoreIn.lower),
                   upper |-> normalizeSnowDepth(scoreIn.upper) ]
  /\ UNCHANGED <<conditions, driveTimes, now, api, ops, last, scoreIn, tasks>>

DepthNext == Normalize

DepthSpec == DepthInit /\ [][DepthNext]_vars

(***************************************************************************)
(* The fallback estimate on its own: a distance and an identity are drawn  *)
(* and the drive time is estimated.                                        *)
(***************************************************************************)
MaxHalfKm == 400

\* Every half kilometre up to 200 km, one metre either side of the two
\* thresholds, and the distance to Lauchernalp.
FallbackDistances ==
  {500 * k : k \in 0..MaxHalfKm} \cup {49999, 50001, 149999, 150001, 110866}

\* The pass routes, two other destinations, and no identity ('').
FallbackIds ==
  challengingRoutes \cup {RESORT_DATABASE[1].internalId, RESORT_DATABASE[8].internalId, <<>>}

FallbackInit ==
  /\ now \in StartTimes
  /\ scoreIn \in [distanceMetres : FallbackDistances, resortId : FallbackIds]
  /\ scoreOut = NoScoreOut
  /\ conditions = <<>>
  /\ driveTimes = {}
  /\ api = "nokey"
  /\ ops = 0
  /\ last = [op |-> "init"]
  /\ tasks = <<>>

\* estimateDriveTime(distanceKm, resortId)
EstimateFallback ==
  /\ scoreOut = NoScoreOut
  /\ scoreOut' = [minutes |-> estimateDriveTime(scoreIn.distanceMetres, scoreIn.resortId)]
  /\ UNCHANGED <<conditions, driveTimes, now, api, ops, last, scoreIn, tasks>>

FallbackNext == EstimateFallback

FallbackSpec == FallbackInit /\ [][FallbackNext]_vars

(***************************************************************************)
(* The resolver on its own: a name as the scraper hands it over (trimmed,  *)
(* not empty) is drawn, resolved and stored.                               *)
(***************************************************************************)
\* Names no registry entry matches.
UnknownNames ==
  { NameAirolo,
    <<"S", "t", ".", " ", "M", "o", "r", "i", "t", "z", " ", "-", " ", "C", "o", "r", "v", "i", "g", "l", "i", "a">>,
    <<"V", "a", "l", " ", "d", "'", "A", "n", "n", "i", "v", "i", "e", "r", "s", " ", "(", "G", "r", "i", "m", "e", "n", "t", "z", "/", "Z", "i", "n", "a", "l", ")">>,
    <<"(", "4", ")", " ", "V", "a", "l", "l", "e", "e", "s", " ", "-", "-", " ", "V", "e", "r", "b", "i", "e", "r", "!">> }

\* The beginnings of the registry names, the names themselves among them.
NameBeginnings ==
  UNION {{SubSeq(RESORT_DATABASE[i].bergfexName, 1, k) :
             k \in 1..Len(RESORT_DATABASE[i].bergfexName)} : i \in DOMAIN RESORT_DATABASE}

\* A registry name inside a longer name.
LongerNames ==
  {<<"S", "k", "i", "g", "e", "b", "i", "e", "t", " ">> \o RESORT_DATABASE[i].bergfexName \o <<" ", "(", "C", "H", ")">> :
     i \in DOMAIN RESORT_DATABASE}

ResolveNames ==
  {n \in NameBeginnings \cup {toLowerCase(b) : b \in NameBeginnings}
           \cup LongerNames \cup UnknownNames :
     n # <<>> /\ n[1] # " " /\ n[Len(n)] # " "}

ResolveInit ==
  /\ now \in StartTimes
  /\ scoreIn \in [name : ResolveNames]
  /\ scoreOut = NoScoreOut
  /\ conditions = <<>>
  /\ driveTimes = {}
  /\ api = "nokey"
  /\ ops = 0
  /\ last = [op |-> "init"]
  /\ tasks = <<>>

\* storeBergfexConditions([row]) of a scraped row with the name
Resolve ==
  /\ scoreOut = NoScoreOut
  /\ conditions' = storeBergfexConditions(conditions,
                     <<Scraped(scoreIn.name, NULL, 83, NULL, 1, 13, now)>>, now)
  /\ scoreOut' = [ mapping |-> findResortByBergfexName(scoreIn.name) ]
  /\ UNCHANGED <<driveTimes, now, api, ops, last, scoreIn, tasks>>

ResolveNext == Resolve

ResolveSpec == ResolveInit /\ [][ResolveNext]_vars

(***************************************************************************)
(* Properties.                                                             *)
(***************************************************************************)
Scored == scoreOut # NoScoreOut

Recommended == last.op = "recommend"

\* Position of a destination in the order the store enumerates them.
EnumPos(scored, id) == CHOOSE i \in DOMAIN scored : scored[i].resort.id = id

\* Code-unit order of the characters identifiers are made of.
CharOrder ==
  << "-", "0", "1", "2", "3", "4", "5", "6", "7", "8", "9", "a", "b", "c", "d", "e",
     "f", "g", "h", "i", "j", "k", "l", "m", "n", "o", "p", "q", "r", "s", "t", "u",
     "v", "w", "x", "y", "z" >>

CharRank(c) ==
  IF \E i \in DOMAIN CharOrder : CharOrder[i] = c
    THEN CHOOSE i \in DOMAIN CharOrder : CharOrder[i] = c
    ELSE 0

\* a <= b as strings
RECURSIVE IdLE(_, _)
IdLE(a, b) ==
  IF a = <<>> THEN TRUE
  ELSE IF b = <<>> THEN FALSE
  ELSE IF Head(a) = Head(b) THEN IdLE(Tail(a), Tail(b))
  ELSE CharRank(Head(a)) < CharRank(Head(b))

\* C1: a resort whose season status is CLOSED scores 0 with status CLOSED,
\* whatever its snow depths, lift counts, features, hours and the time.
C1_ClosedScoresZero ==
  (Scored /\ scoreIn.seasonStatus = "CLOSED")
    => (scoreOut.score = RatInt(0) /\ scoreOut.status = "CLOSED")

C1_Witness ==
  /\ Scored
  /\ scoreIn.seasonStatus = "CLOSED"
  /\ scoreIn.mountainDepth = 300
  /\ scoreIn.liftsOpen = 20
  /\ scoreIn.newSnow = 10

\* C2: every item a recommendation request returns has a travel duration of
\* at most the request's maximum: a destination beyond it never appears.
C2_WithinTravelLimit ==
  Recommended =>
    \A i \in DOMAIN last.recommendations :
      last.recommendations[i].driveTime <= last.options.maxDriveTime

C2_Witness ==
  /\ Recommended
  /\ \E i \in DOMAIN last.recommendations :
       last.recommendations[i].driveTime > last.options.maxDriveTime

\* C3: unless closed resorts are asked for, every item returned belongs to
\* a destination whose resolved season status is OPEN.
C3_OnlyOpenUnlessAsked ==
  (Recommended /\ ~last.options.includeClosed) =>
    \A i \in DOMAIN last.recommendations :
      resortFor(getAllLatestConditions(conditions, now),
                last.recommendations[i].resort.id).resort.seasonStatus = "OPEN"

C3_Witness ==
  /\ Recommended
  /\ ~last.options.includeClosed
  /\ last.options.minScore = 0
  /\ last.recommendations # <<>>
  /\ \E i \in DOMAIN last.scoredRecommendations :
       /\ last.scoredRecommendations[i].resort.seasonStatus = "CLOSED"
       /\ last.scoredRecommendations[i].driveTime <= last.options.maxDriveTime

\* C4: every item returned has a score of at least the request's minimum
\* score: a destination whose computed score is below it never appears.
C4_AtLeastMinScore ==
  Recommended =>
    /\ \A i \in DOMAIN last.recommendations :
         /\ RatLE(RatInt(last.options.minScore), last.recommendations[i].score.score)
         /\ last.recommendations[i].score =
              calculateScore(last.recommendations[i].resort, now)
    /\ \A j \in DOMAIN last.scoredRecommendations :
         RatLT(calculateScore(last.scoredRecommendations[j].resort, now).score,
               RatInt(last.options.minScore))
           => \A i \in DOMAIN last.recommendations :
                last.recommendations[i].resort.id # last.scoredRecommendations[j].resort.id

C4_Witness ==
  /\ Recommended
  /\ last.recommendations # <<>>
  /\ \E j \in DOMAIN last.scoredRecommendations :
       /\ last.scoredRecommendations[j].resort.seasonStatus = "OPEN"
       /\ RatLT(RatInt(0), last.scoredRecommendations[j].score.score)
       /\ RatLT(last.scoredRecommendations[j].score.score, RatInt(last.options.minScore))

\* The order the specification states: score descending, then priority
\* descending, then identifier ascending.
StatedOrder(a, b) ==
  \/ RatLT(b.score.score, a.score.score)
  \/ /\ RatEq(a.score.score, b.score.score)
     /\ \/ a.resort.priority > b.resort.priority
        \/ /\ a.resort.priority = b.resort.priority
           /\ IdLE(a.resort.id, b.resort.id)

ServedOrder(scored, a, b) ==
  \/ RatLT(b.score.score, a.score.score)
  \/ /\ RatEq(a.score.score, b.score.score)
     /\ EnumPos(scored, a.resort.id) < EnumPos(scored, b.resort.id)

\* A scored destination the season and score filters let through.
PassesFilters(rec, options) ==
  /\ options.includeClosed \/ rec.resort.seasonStatus = "OPEN"
  /\ RatLE(RatInt(options.minScore), rec.score.score)

StatedFunnel(scored, options) ==
  LET travel == {k \in DOMAIN scored : scored[k].driveTime <= options.maxDriveTime}
      season == {k \in travel : options.includeClosed
                                  \/ scored[k].resort.seasonStatus = "OPEN"}
      score  == {k \in season : RatLE(RatInt(options.minScore), scored[k].score.score)}
  IN  [ totalConsidered  |-> Len(scored),
        filteredByDrive  |-> Cardinality(travel),
        filteredBySeason |-> Cardinality(season),
        filteredByScore  |-> Cardinality(score),
        finalCount       |-> Min(options.limit, Cardinality(score)) ]

\* C6: the funnel summary counts the destinations considered, then those
\* left by the travel filter, of these those left by the season filter, of
\* these those left by the score filter, and the number returned; ten
\* destinations of which three are too far, two others closed and one other
\* below the minimum score give 10, 7, 5, 4, 4.
C6_FunnelCountsSurvivors ==
  Recommended => last.summary = StatedFunnel(last.scoredRecommendations, last.options)

\* The ten-destination scenario has been requested with the default options.
C6_Witness ==
  /\ Recommended
  /\ last.options = [maxDriveTime |-> 180, minScore |-> 10, limit |-> 5,
                     includeClosed |-> FALSE]
  /\ StatedFunnel(last.scoredRecommendations, last.options) =
       [ totalConsidered |-> 10, filteredByDrive |-> 7, filteredBySeason |-> 5,
         filteredByScore |-> 4, finalCount |-> 4 ]
  /\ last.summary # StatedFunnel(last.scoredRecommendations, last.options)

\* The freshness window of condition records, in minutes.
FreshnessWindow == 24 * 60

\* C7: a condition record observed more than 24 hours ago is treated as
\* absent: neither the latest-record query nor the all-latest query returns it.
C7_StaleIsAbsent ==
  /\ \A i \in DOMAIN conditions :
       LET latest == getLatestConditions(conditions, conditions[i].resort_id, now)
       IN  latest # None => now - latest[1].lastUpdate <= FreshnessWindow
  /\ \A i \in DOMAIN getAllLatestConditions(conditions, now) :
       now - getAllLatestConditions(conditions, now)[i].lastUpdate <= FreshnessWindow

C7_Witness ==
  \E i \in DOMAIN conditions :
    /\ conditions[i].last_update # NULL
    /\ now - conditions[i].last_update > FreshnessWindow
    /\ getLatestConditions(conditions, conditions[i].resort_id, now)
         = Some(formatConditions(conditions[i], now))

\* C8: after a record with a newer timestamp is stored for an identity that
\* already has one, the latest-record query returns the new record.
C8_NewerReplaces ==
  (/\ last.op = "store"
   /\ Len(last.scrapedData) = 1
   /\ last.latestBefore # None
   /\ conditions[Len(conditions)].last_update # NULL
   /\ conditions[Len(conditions)].last_update > last.latestBefore[1].lastUpdate
   /\ conditions[Len(conditions)].scraped_at > last.latestBefore[1].scrapedAt)
    => getLatestConditions(conditions, conditions[Len(conditions)].resort_id, now)
         = Some(formatConditions(conditions[Len(conditions)], now))

C8_Witness ==
  /\ last.op = "store"
  /\ Len(last.scrapedData) = 1
  /\ last.latestBefore # None
  /\ conditions[Len(conditions)].last_update # NULL
  /\ conditions[Len(conditions)].last_update > last.latestBefore[1].lastUpdate
  /\ conditions[Len(conditions)].scraped_at > last.latestBefore[1].scrapedAt
  /\ getLatestConditions(conditions, conditions[Len(conditions)].resort_id, now)
       = last.latestBefore

\* The measurement values of a condition record.
Measurements(c) ==
  [ resortId |-> c.resortId, mountainDepth |-> c.mountainDepth,
    valleyDepth |-> c.valleyDepth, newSnow |-> c.newSnow,
    liftsOpen |-> c.liftsOpen, liftsTotal |-> c.liftsTotal ]

MeasurementsOfAll(all) == [i \in DOMAIN all |-> Measurements(all[i])]

\* C9: storing the identical condition record a second time for the same
\* identity leaves the measurement values returned by the latest-record
\* query and by the all-latest query as they were after the first store.
C9_StoreTwiceSameValues ==
  (last.op = "store" /\ last.again) =>
    /\ last.latestBefore # None
    /\ Measurements(getLatestConditions(conditions,
                      conditions[Len(conditions)].resort_id, now)[1])
         = Measurements(last.latestBefore[1])
    /\ MeasurementsOfAll(getAllLatestConditions(conditions, now))
         = MeasurementsOfAll(last.latestAllBefore)

\* The record was stored in the same instant as another record of the
\* identity, time passed, and the same record was stored again.
C9_Witness ==
  /\ last.op = "store"
  /\ last.again
  /\ MeasurementsOfAll(getAllLatestConditions(conditions, now))
       # MeasurementsOfAll(last.latestAllBefore)

\* C10: two estimates for the same destination in succession cost at most
\* one request to the routing service in total and return the same distance
\* and the same duration.
C10_SecondEstimateFromCache ==
  (last.op = "estimate" /\ last.again) =>
    /\ last.previous[1].calls + last.calls <= 1
    /\ last.estimate.distanceKm = last.previous[1].estimate.distanceKm
    /\ last.estimate.driveTimeMinutes = last.previous[1].estimate.driveTimeMinutes

\* The first estimate went to the routing service, the second did not.
C10_Witness ==
  /\ last.op = "estimate"
  /\ last.again
  /\ last.previous[1].calls = 1
  /\ last.calls = 0

Estimated == last.op = "estimate"

\* The rows the table holds under the key of the last estimate.
RowsOfEstimate ==
  {row \in driveTimes : row.resort_id = last.estimate.resortId /\ row.origin = "Hedingen"}

\* The key of the last estimate held a row older than one year.
ExpiredBefore ==
  /\ last.cachedBefore # {}
  /\ \A row \in last.cachedBefore : now - row.cached_at > oneYear

\* The last estimate repeats the row.
SameAsRow(row) ==
  /\ last.estimate.distanceKm = row.distance_km
  /\ last.estimate.driveTimeMinutes = row.drive_time_minutes

\* C11: a cached estimate more than one year old is never returned: the
\* lookup misses, a fresh estimate (live or fallback) is computed and it
\* replaces the expired row under the same (identity, origin) key.
C11_ExpiredIsRecomputed ==
  (Estimated /\ ExpiredBefore) =>
    /\ last.source \in {"live", "fallback"}
    /\ last.source = "live" => last.calls = 1
    /\ Cardinality(RowsOfEstimate) = 1
    /\ \A row \in RowsOfEstimate : row.cached_at = now /\ SameAsRow(row)

\* The expired row held other values than the fresh estimate.
C11_Witness ==
  /\ Estimated
  /\ ExpiredBefore
  /\ \A row \in last.cachedBefore : ~SameAsRow(row)
  /\ \A row \in RowsOfEstimate : row.cached_at = now

\* The registry entry of the last estimate.
EstimatedResort ==
  RESORT_DATABASE[CHOOSE i \in DOMAIN RESORT_DATABASE :
                    RESORT_DATABASE[i].internalId = last.estimate.resortId]

\* The states of the service in which a request gives no usable route.
FailureModes ==
  {"nokey", "down", "noroutes", "minutes", "garbledIso", "garbledSeconds"}

\* The last estimate found no valid row in the cache.
MissedBefore ==
  \A row \in last.cachedBefore : now - row.cached_at > oneYear

\* The last estimate is the geometric fallback of its destination.
IsGeometricFallback ==
  last.estimate =
    fallbackEstimate(EstimatedResort.internalId,
      calculateDistance(HEDINGEN_COORDS.lat, HEDINGEN_COORDS.lng,
                        EstimatedResort.resort.coordinates.lat,
                        EstimatedResort.resort.coordinates.lng))

\* C12: when the routing call fails (no credentials, error status, network
\* error, empty route list, unparseable duration) the estimate is the
\* geometric fallback, it is stored under the same key with the time of the
\* call, and the next estimate for the destination is a cache hit.
C12_FailureFallsBack ==
  /\ (Estimated /\ MissedBefore /\ last.service \in FailureModes) =>
       /\ IsGeometricFallback
       /\ Cardinality(RowsOfEstimate) = 1
       /\ \A row \in RowsOfEstimate : row.cached_at = now /\ SameAsRow(row)
  /\ (Estimated /\ last.again /\ last.service \in FailureModes) =>
       last.source = "cache"

\* A duration that is not a duration was taken for a live result.
C12_Witness ==
  /\ Estimated
  /\ MissedBefore
  /\ last.service \in {"garbledIso", "garbledSeconds"}
  /\ last.source = "live"
  /\ ~IsGeometricFallback

\* C13: every estimate eventually returns: a request the routing service
\* never answers is ended by a timeout and leads to the fallback.
C13_EveryEstimateReturns == (last.op = "awaiting") ~> (last.op = "estimate")

\* A request is out to a service that does not answer.
C13_Witness == last.op = "awaiting" /\ last.service = "silent"

\* C20: while the routing service gives no route, the estimate for a
\* destination has the same distance and the same duration on every call,
\* whether it is computed, recomputed after the expiry, or read from the
\* cache: it repeats what earlier calls left in the cache, it leaves what it
\* returns, and two calls in a row agree.
C20_OutageEstimateIsStable ==
  Estimated =>
    /\ \A row \in last.cachedBefore : SameAsRow(row)
    /\ Cardinality(RowsOfEstimate) = 1
    /\ \A row \in RowsOfEstimate : SameAsRow(row)
    /\ last.again =>
         /\ last.previous[1].estimate.distanceKm = last.estimate.distanceKm
         /\ last.previous[1].estimate.driveTimeMinutes = last.estimate.driveTimeMinutes

\* An estimate computed anew over the expired row of an earlier call.
C20_Witness ==
  /\ Estimated
  /\ last.source = "fallback"
  /\ ExpiredBefore
  /\ api \in OutageModes

\* C14: the depth normalisation maps 20 to 20, 50 to 60 and 100 to 90, and
\* it never decreases as the depth grows from 0.
C14_NormalizeAnchorsMonotone ==
  Scored =>
    /\ scoreIn.upper = 20 => RatEq(scoreOut.upper, RatInt(20))
    /\ scoreIn.upper = 50 => RatEq(scoreOut.upper, RatInt(60))
    /\ scoreIn.upper = 100 => RatEq(scoreOut.upper, RatInt(90))
    /\ RatLE(scoreOut.lower, scoreOut.upper)

\* 50 cm is worth 60 and 100 cm is worth 30.
C14_Witness ==
  /\ Scored
  /\ scoreIn.lower = 50
  /\ scoreIn.upper = 100
  /\ RatEq(scoreOut.lower, RatInt(60))
  /\ RatEq(scoreOut.upper, RatInt(30))

\* C15: the score is within [0, 100] for every input.
C15_ScoreWithinBounds ==
  Scored => RatLE(RatInt(0), scoreOut.score) /\ RatLE(scoreOut.score, RatInt(100))

\* A sum above 100, or below 0, was brought to the bound.
C15_Witness ==
  /\ Scored
  /\ scoreOut.status = "OPEN"
  /\ \/ RatLT(RatInt(100), rawScore(scoreIn, now)) /\ RatEq(scoreOut.score, RatInt(100))
     \/ RatLT(rawScore(scoreIn, now), RatInt(0)) /\ RatEq(scoreOut.score, RatInt(0))

\* The hours configured for the day category of the clock, <<>> if none.
HoursOfDay ==
  IF ~scoreIn.operatingHours.configured THEN <<>>
  ELSE IF getDay(now) \in {0, 6} THEN scoreIn.operatingHours.weekends
  ELSE scoreIn.operatingHours.weekdays

\* The clock is outside the window configured for the day category.
OutsideHours ==
  /\ HoursOfDay # <<>>
  /\ minuteOfDay(now) < HoursOfDay[1] \/ minuteOfDay(now) > HoursOfDay[2]

\* C16: a resort whose season is not closed, with a lift count of zero or
\* missing, scored outside the hours configured for the day category, gets
\* score 0 and status CLOSED_TODAY; with no hours configured for the day
\* category the rule never fires.
C16_ClosedTodayRule ==
  Scored =>
    /\ ( /\ scoreIn.seasonStatus # "CLOSED"
         /\ scoreIn.liftsOpen \in {0, NULL}
         /\ OutsideHours )
       => (scoreOut.status = "CLOSED_TODAY" /\ RatEq(scoreOut.score, RatInt(0)))
    /\ HoursOfDay = <<>> => scoreOut.status # "CLOSED_TODAY"

\* No lift count, outside the hours, and the resort is scored as open.
C16_Witness ==
  /\ Scored
  /\ scoreIn.seasonStatus # "CLOSED"
  /\ scoreIn.liftsOpen = NULL
  /\ OutsideHours
  /\ scoreOut.status = "OPEN"

\* The result of scoring the same resort at the same time with the field at 0.
SameAsScored(withZero) ==
  /\ calculateScore(withZero, now).status = scoreOut.status
  /\ RatEq(calculateScore(withZero, now).score, scoreOut.score)

\* C17: a missing depth, new-snow or lift field gives the result the same
\* resort gets with that field at 0.
C17_MissingCountsAsZero ==
  Scored =>
    /\ scoreIn.mountainDepth = NULL => SameAsScored([scoreIn EXCEPT !.mountainDepth = 0])
    /\ scoreIn.newSnow = NULL => SameAsScored([scoreIn EXCEPT !.newSnow = 0])
    /\ scoreIn.liftsOpen = NULL => SameAsScored([scoreIn EXCEPT !.liftsOpen = 0])
    /\ scoreIn.liftsTotal = NULL => SameAsScored([scoreIn EXCEPT !.liftsTotal = 0])

\* Without a lift count the resort is open, with a count of 0 closed today.
C17_Witness ==
  /\ Scored
  /\ scoreIn.liftsOpen = NULL
  /\ scoreOut.status = "OPEN"
  /\ calculateScore([scoreIn EXCEPT !.liftsOpen = 0], now).status = "CLOSED_TODAY"

\* Open season, 83 cm, 1 of 13 lifts, no new snow, no park, no night riding,
\* difficulty not mixed, scored on a weekday.
ScenarioA ==
  /\ Scored
  /\ scoreIn.seasonStatus = "OPEN"
  /\ scoreIn.mountainDepth = 83
  /\ scoreIn.liftsOpen = 1
  /\ scoreIn.liftsTotal = 13
  /\ scoreIn.newSnow \in {NULL, 0}
  /\ ~scoreIn.hasPark
  /\ ~scoreIn.hasNightRiding
  /\ scoreIn.difficulty # "mixed"
  /\ getDay(now) \in 1..5

\* C18: the resort of scenario A is OPEN with a score of about 34.5
\* (0.5 x 76 + 0 + 1.54 - 10 + 5): between 34 and 35.
C18_ScenarioAScore ==
  ScenarioA =>
    /\ scoreOut.status = "OPEN"
    /\ RatLE(RatInt(34), scoreOut.score)
    /\ RatLE(scoreOut.score, RatInt(35))

\* Scenario A scores 0.5 x 40.2 + 20/13 + 5 = 3463/130, about 26.64.
C18_Witness ==
  /\ ScenarioA
  /\ scoreOut.status = "OPEN"
  /\ RatEq(scoreOut.score, Rat(3463, 130))

\* The speed (km/h) and the delay (minutes) the tiers give.
StatedTier ==
  IF scoreIn.resortId \in challengingRoutes THEN [speed |-> 45, delay |-> 45]
  ELSE IF scoreIn.distanceMetres <= 50000 THEN [speed |-> 100, delay |-> 10]
  ELSE IF scoreIn.distanceMetres > 150000 THEN [speed |-> 60, delay |-> 20]
  ELSE [speed |-> 80, delay |-> 15]

\* 2 * |minutes - (distance / speed * 60 + delay)| in units of 1 / (1000 * speed).
TwiceRoundingError ==
  LET e == 2 * (1000 * StatedTier.speed * (scoreOut.minutes - StatedTier.delay)
                  - 60 * scoreIn.distanceMetres)
  IN  IF e < 0 THEN 0 - e ELSE e

ExactMatches ==
  {i \in DOMAIN RESORT_DATABASE :
     toLowerCase(RESORT_DATABASE[i].bergfexName) = toLowerCase(scoreIn.name)}

\* The registry entries whose name contains the name or is contained in it,
\* ignoring case.
ContainmentMatches ==
  {i \in DOMAIN RESORT_DATABASE :
     \/ includes(toLowerCase(RESORT_DATABASE[i].bergfexName), toLowerCase(scoreIn.name))
     \/ includes(toLowerCase(scoreIn.name), toLowerCase(RESORT_DATABASE[i].bergfexName))}

\* The maximal runs of lower-case letters and digits of s, in order; `word`
\* is the run being read.
RECURSIVE WordsFrom(_, _)
WordsFrom(s, word) ==
  IF s = <<>> THEN (IF word = <<>> THEN <<>> ELSE <<word>>)
  ELSE IF Head(s) \in LowerAlnum THEN WordsFrom(Tail(s), Append(word, Head(s)))
  ELSE (IF word = <<>> THEN <<>> ELSE <<word>>) \o WordsFrom(Tail(s), <<>>)

\* The words with one separator between neighbours.
RECURSIVE JoinWords(_)
JoinWords(words) ==
  IF words = <<>> THEN <<>>
  ELSE IF Len(words) = 1 THEN words[1]
  ELSE words[1] \o <<"-">> \o JoinWords(Tail(words))

\* Lower case, every run of other characters one separator, none at the ends.
SlugOf(name) == JoinWords(WordsFrom(toLowerCase(name), <<>>))

\* C21: a name resolves to the registry entry whose name equals it ignoring
\* case when there is one; otherwise to an entry whose name contains it or is
\* contained in it; otherwise to no entry, and the record is stored under the
\* slug of the name.  A resolved record is stored under the entry's identity.
C21_ResolutionOrder ==
  Scored =>
    /\ ExactMatches # {} => scoreOut.mapping \in ExactMatches
    /\ (ExactMatches = {} /\ ContainmentMatches # {}) =>
         scoreOut.mapping \in ContainmentMatches
    /\ ContainmentMatches = {} =>
         /\ scoreOut.mapping = 0
         /\ conditions[Len(conditions)].resort_id = SlugOf(scoreIn.name)
    /\ scoreOut.mapping # 0 =>
         conditions[Len(conditions)].resort_id = RESORT_DATABASE[scoreOut.mapping].internalId

\* A name in another case, a part of a name, a longer name, an unknown name
\* with runs of punctuation.
C21_Witness ==
  /\ Scored
  /\ \/ /\ scoreIn.name = toLowerCase(RESORT_DATABASE[3].bergfexName)
        /\ scoreIn.name # RESORT_DATABASE[3].bergfexName
        /\ scoreOut.mapping = 3
     \/ /\ ExactMatches = {}
        /\ scoreIn.name \in LongerNames
        /\ scoreOut.mapping = 8
     \/ /\ scoreIn.name = <<"S", "t", ".", " ", "M", "o", "r", "i", "t", "z", " ", "-", " ", "C", "o", "r", "v", "i", "g", "l", "i", "a">>
        /\ conditions[1].resort_id = <<"s", "t", "-", "m", "o", "r", "i", "t", "z", "-", "c", "o", "r", "v", "i", "g", "l", "i", "a">>

\* The identities stored that no registry entry has.
UnmappedStored ==
  {conditions[i].resort_id : i \in DOMAIN conditions}
    \ {RESORT_DATABASE[k].internalId : k \in DOMAIN RESORT_DATABASE}

\* The record stored last for the identity.
LastStored(id) ==
  conditions[CHOOSE i \in DOMAIN conditions :
               /\ conditions[i].resort_id = id
               /\ \A j \in DOMAIN conditions : conditions[j].resort_id = id => j <= i]

\* The record is inside the freshness window.
IsCurrent(row) ==
  /\ now - row.scraped_at <= FreshnessWindow
  /\ row.last_update # NULL => now - row.last_update <= FreshnessWindow

\* The metadata of a destination without a registry entry.
SynthesizedFor(row) ==
  [ priority |-> 3, difficulty |-> "mixed", coordinates |-> DefaultCoordinates,
    hasPark |-> FALSE, hasNightRiding |-> FALSE,
    seasonStatus |-> IF row.lifts_open = NULL \/ row.lifts_open = 0
                       THEN "CLOSED" ELSE "OPEN" ]

MetadataOf(resort) ==
  [ priority |-> resort.priority, difficulty |-> resort.difficulty,
    coordinates |-> resort.coordinates, hasPark |-> resort.hasPark,
    hasNightRiding |-> resort.hasNightRiding, seasonStatus |-> resort.seasonStatus ]

\* C22: a current record stored under a name without a registry entry is
\* considered by the recommendation (it is one of totalConsidered) with
\* priority 3, difficulty mixed, the default coordinates, no park, no night
\* riding, and the status CLOSED when the lift count of its latest record is
\* zero or missing and OPEN otherwise.
C22_UnmappedIsConsidered ==
  Recommended =>
    \A id \in UnmappedStored :
      IsCurrent(LastStored(id)) =>
        /\ Cardinality({k \in DOMAIN last.scoredRecommendations :
                          last.scoredRecommendations[k].resort.id = id}) = 1
        /\ last.summary.totalConsidered = Len(last.scoredRecommendations)
        /\ \A k \in DOMAIN last.scoredRecommendations :
             last.scoredRecommendations[k].resort.id = id =>
               MetadataOf(last.scoredRecommendations[k].resort)
                 = SynthesizedFor(LastStored(id))

\* The latest record of an unmapped destination has no lift count and the
\* destination is taken for open.
C22_Witness ==
  /\ Recommended
  /\ \E id \in UnmappedStored :
       /\ IsCurrent(LastStored(id))
       /\ LastStored(id).lifts_open = NULL
       /\ \E k \in DOMAIN last.scoredRecommendations :
            /\ last.scoredRecommendations[k].resort.id = id
            /\ last.scoredRecommendations[k].resort.seasonStatus = "OPEN"

\* C23: an operation that has sent a request to the routing service lets a
\* timer run before it sends the next, and no more than 5 requests are out
\* at the same time; for the recommendation, the startup initializer,
\* getClosedResorts and getDriveEstimates.
C23_SpacedAndBounded ==
  /\ last.op \in {"start", "timer"} => last.unspaced = 0
  /\ Cardinality(InFlight) <= 5

\* getClosedResorts has sent its two requests in one step, and six requests
\* are out.
C23_Witness ==
  /\ last.op = "start"
  /\ tasks[last.task].kind = "closed"
  /\ last.sent = 2
  /\ last.unspaced = 1
  /\ Cardinality(InFlight) = 6

\* C29: of the operations that overlap, at most one sends a request to the
\* routing service for a destination, and all get the same distance and the
\* same duration for it.
C29_OneCallPerDestination ==
  \A i \in DOMAIN RESORT_DATABASE :
    /\ Cardinality({k \in DOMAIN tasks : i \in tasks[k].called}) <= 1
    /\ \A k1, k2 \in DOMAIN tasks :
         \A r1 \in tasks[k1].results, r2 \in tasks[k2].results :
           (r1.target = i /\ r2.target = i) => r1 = r2

\* The initializer waits for the answer for a destination and the
\* recommendation has sent a request for the same destination.
C29_Witness ==
  /\ Len(tasks) = 2
  /\ tasks[1].kind = "initialize"
  /\ tasks[2].kind = "recommend"
  /\ tasks[1].flying \cap tasks[2].flying # {}

\* The identities the store holds a condition record for.
StoredIds == {conditions[i].resort_id : i \in DOMAIN conditions}

MappedStored ==
  StoredIds \cap {RESORT_DATABASE[k].internalId : k \in DOMAIN RESORT_DATABASE}

\* The season status the last collection reported for the identity.
ReportedStatus(id) == scrapedSeasonStatus(LastStored(id).lifts_open)

\* C25: for a registry destination the season status the recommendation
\* filters and scores on is the status the last collection reported for it.
C25_ReportedStatusIsUsed ==
  Recommended =>
    \A k \in DOMAIN last.scoredRecommendations :
      LET id == last.scoredRecommendations[k].resort.id
      IN  (id \in MappedStored /\ ReportedStatus(id) # "null") =>
            last.scoredRecommendations[k].resort.seasonStatus = ReportedStatus(id)

\* The last collection found no lift running at a registry destination and
\* the recommendation takes it for open.
C25_Witness ==
  /\ Recommended
  /\ \E k \in DOMAIN last.scoredRecommendations :
       /\ last.scoredRecommendations[k].resort.id \in MappedStored
       /\ ReportedStatus(last.scoredRecommendations[k].resort.id) = "CLOSED"
       /\ last.scoredRecommendations[k].resort.seasonStatus = "OPEN"
       /\ last.scoredRecommendations[k].score.status = "OPEN"

\* C26: in every result the counts of the funnel do not grow from stage to
\* stage, totalConsidered >= filteredByDrive >= filteredBySeason >=
\* filteredByScore >= finalCount, and finalCount is the number of items
\* returned.
C26_FunnelNeverGrows ==
  Recommended =>
    /\ last.summary.totalConsidered >= last.summary.filteredByDrive
    /\ last.summary.filteredByDrive >= last.summary.filteredBySeason
    /\ last.summary.filteredBySeason >= last.summary.filteredByScore
    /\ last.summary.filteredByScore >= last.summary.finalCount
    /\ last.summary.finalCount = Len(last.recommendations)

\* More destinations are counted after the season filter than after the
\* travel filter before it.
C26_Witness ==
  /\ Recommended
  /\ last.summary.filteredBySeason > last.summary.filteredByDrive

\* The identities a query can be made for: those stored and the registry's.
KnownIds == StoredIds \cup {RESORT_DATABASE[k].internalId : k \in DOMAIN RESORT_DATABASE}

\* C27: after any sequence of stores, for every identity the latest-record
\* query returns the record the all-latest query holds for the identity,
\* both being the record stored last, and it returns nothing exactly when
\* the all-latest query has no entry for the identity.
C27_LatestAgreesWithLatestAll ==
  \A id \in KnownIds :
    LET one == getLatestConditions(conditions, id, now)
        all == conditionsMapGet(getAllLatestConditions(conditions, now), id)
    IN  /\ one = None <=> all = None
        /\ one = all
        /\ id \in StoredIds => one = Some(formatConditions(LastStored(id), now))

\* Two records of an identity were stored a day apart: the latest-record
\* query returns the older and the all-latest query holds the newer.
C27_Witness ==
  \E id \in StoredIds :
    LET one == getLatestConditions(conditions, id, now)
        all == conditionsMapGet(getAllLatestConditions(conditions, now), id)
    IN  /\ one # None
        /\ all # None
        /\ one[1].scrapedAt < all[1].scrapedAt
        /\ all = Some(formatConditions(LastStored(id), now))

\* The details query was answered for an identity the preceding request for
\* recommendations returned, nothing stored in between.
DetailsOfRecommended == last.op = "details" /\ last.recommended # {}

\* C28: for every item a request for recommendations returns, the details
\* query for its identity, made with no store in between, returns a result,
\* with the same status, the same score and the same travel minutes; this
\* covers synthesized identities and destinations with several records.
C28_DetailsAgreeWithRecommendation ==
  DetailsOfRecommended =>
    /\ last.details # None
    /\ \A rec \in last.recommended :
         /\ last.details[1].score.status = rec.score.status
         /\ last.details[1].score.score = rec.score.score
         /\ last.details[1].driveTime = rec.driveTime

\* Details were asked for a returned destination that the registry does not
\* hold, and the answer is null.
C28_Witness ==
  /\ DetailsOfRecommended
  /\ findIndexByInternalId(last.resortId) = 0
  /\ last.details = None

\* The items the last request would have returned from the same scored
\* destinations with the given includeClosed.
ReturnedWith(includeClosed) ==
  sliceTo(sortByScore(filterByMinScore(filterBySeason(last.scoredRecommendations,
                                                      includeClosed),
                                       last.options.minScore), <<>>),
          last.options.limit)

====
